---- MODULE Spec2Model ----
(***************************************************************************)
(* A model of the collaborative document editing module                    *)
(* (src/api/collaborative_editor.py): Operation, DocumentState,            *)
(* CollaborativeSession and CollaborationManager.                          *)
(*                                                                         *)
(* Python values are modelled as follows.                                  *)
(*   str             a sequence of characters (content) or of code points  *)
(*                   (agent ids, which the code compares with <)           *)
(*   Optional[T]     None is <<>>, a supplied value x is <<x>>             *)
(*   dict            a function whose DOMAIN is the set of keys            *)
(*   list            a sequence                                            *)
(***************************************************************************)
EXTENDS Integers, Sequences, FiniteSets, TLC

VARIABLES
    sessions,         \* CollaborationManager.sessions: document_id -> CollaborativeSession
    initial_content,  \* history: the initial_content each session was created with
    call,             \* the last call made and what it returned
    pc,               \* per thread: position inside the call it is executing
    lock,             \* per document: holder of DocumentState.lock, or NoThread
    frame,            \* per thread: the locals of the call it is executing
    operation_queue,  \* CollaborationManager.operation_queue: list of (document_id, Operation)
    manager_lock,     \* holder of CollaborationManager.lock, or NoThread
    held              \* get_session_info results their callers still hold

vars == <<sessions, initial_content, call, pc, lock, frame,
          operation_queue, manager_lock, held>>

----------------------------------------------------------------------------
(* Python values *)

None == <<>>

Some(x) == <<x>>

Val(o) == o[1]

EmptyDict == <<>>

\* min(a, b)
Min(a, b) == IF a <= b THEN a ELSE b

Max(a, b) == IF a >= b THEN a ELSE b

\* s[:i], with Python's treatment of a negative or too large index
SliceTo(s, i) ==
    LET n == Len(s)
        e == IF i < 0 THEN Max(n + i, 0) ELSE Min(i, n)
    IN  SubSeq(s, 1, e)

\* s[i:], with Python's treatment of a negative or too large index
SliceFrom(s, i) ==
    LET n == Len(s)
        b == IF i < 0 THEN Max(n + i, 0) ELSE Min(i, n)
    IN  SubSeq(s, b + 1, n)

\* truth value of an Optional[str]: None and "" are both false
TruthyStr(o) == o # None /\ Len(Val(o)) > 0

\* truth value of an Optional[int]: None and 0 are both false
TruthyInt(o) == o # None /\ Val(o) # 0

\* a < b on str: lexicographic on code points, a proper prefix is smaller
RECURSIVE StrLess(_, _)
StrLess(a, b) ==
    IF b = <<>> THEN FALSE
    ELSE IF a = <<>> THEN TRUE
    ELSE IF Head(a) # Head(b) THEN Head(a) < Head(b)
    ELSE StrLess(Tail(a), Tail(b))

----------------------------------------------------------------------------
(* OperationType and Operation *)

INSERT == "insert"

DELETE == "delete"

FORMAT == "format"

CURSOR == "cursor"

\* "", the default of the fields agent_id, timestamp and op_id
EmptyStr == <<>>

\* str(n) for an int: its decimal digits as code points, "-" first when n < 0
RECURSIVE Digits(_)
Digits(n) ==
    IF n < 10 THEN <<48 + n>> ELSE Append(Digits(n \div 10), 48 + (n % 10))

Str(n) == IF n < 0 THEN <<45>> \o Digits(0 - n) ELSE Digits(n)

\* OperationType.value as code points
TypeValue(t) ==
    CASE t = INSERT -> <<105, 110, 115, 101, 114, 116>>
      [] t = DELETE -> <<100, 101, 108, 101, 116, 101>>
      [] t = FORMAT -> <<102, 111, 114, 109, 97, 116>>
      [] t = CURSOR -> <<99, 117, 114, 115, 111, 114>>

\* n in decimal with at least w digits, zeros in front
Padded(n, w) ==
    LET digits == Digits(n)
    IN  [i \in 1 .. Max(w - Len(digits), 0) |-> 48] \o digits

\* the date <<year, month, day>> of the day that is z days after 0000-03-01
\* in the Gregorian calendar
DateOfDay(z) ==
    LET era == z \div 146097
        doe == z % 146097
        yoe == (doe - (doe \div 1460) + (doe \div 36524) - (doe \div 146096))
                   \div 365
        doy == doe - (365 * yoe + (yoe \div 4) - (yoe \div 100))
        mp == (5 * doy + 2) \div 153
        month == IF mp < 10 THEN mp + 3 ELSE mp - 9
    IN  <<yoe + era * 400 + (IF month <= 2 THEN 1 ELSE 0), month,
          doy - ((153 * mp + 2) \div 5) + 1>>

\* datetime.utcnow().isoformat() at clock reading now. The clock is read in
\* half seconds: reading 1 is 2026-10-29T07:00:00 (day 740223 after
\* 0000-03-01, 25200 seconds after midnight), reading 2 half a second later.
\* isoformat() leaves the microseconds out when they are zero.
Isoformat(now) ==
    LET halves == now - 1
        seconds == 25200 + (halves \div 2)
        date == DateOfDay(740223 + (seconds \div 86400))
        time == seconds % 86400
    IN  Padded(date[1], 4) \o <<45>> \o Padded(date[2], 2) \o <<45>>
            \o Padded(date[3], 2) \o <<84>>
            \o Padded(time \div 3600, 2) \o <<58>>
            \o Padded((time \div 60) % 60, 2) \o <<58>>
            \o Padded(time % 60, 2)
            \o (IF halves % 2 = 0 THEN <<>>
                ELSE <<46, 53, 48, 48, 48, 48, 48>>)

\* the exception str.encode() raises; whatever calls encode() lets it through
UnicodeEncodeError == [exception |-> "UnicodeEncodeError"]

\* an Operation(...) call or a transform_operation call ended in an exception
\* instead of an Operation
Raised(x) == "exception" \in DOMAIN x

\* a code point U+D800 .. U+DFFF: a str can hold it, UTF-8 cannot
Surrogate(c) == c >= 55296 /\ c <= 57343

\* str.encode() of one code point: its UTF-8 bytes
Utf8(c) ==
    IF Surrogate(c) THEN UnicodeEncodeError
    ELSE IF c < 128 THEN <<c>>
    ELSE IF c < 2048 THEN <<192 + (c \div 64), 128 + (c % 64)>>
    ELSE IF c < 65536
         THEN <<224 + (c \div 4096), 128 + ((c \div 64) % 64), 128 + (c % 64)>>
         ELSE <<240 + (c \div 262144), 128 + ((c \div 4096) % 64),
                128 + ((c \div 64) % 64), 128 + (c % 64)>>

RECURSIVE Utf8Bytes(_)
\* the UTF-8 bytes of a string without surrogates, a half of it at a time
Utf8Bytes(s) ==
    IF Len(s) = 0 THEN <<>>
    ELSE IF Len(s) = 1 THEN Utf8(s[1])
    ELSE LET half == Len(s) \div 2
         IN  Utf8Bytes(SubSeq(s, 1, half))
                 \o Utf8Bytes(SubSeq(s, half + 1, Len(s)))

\* str.encode() accepts the string: no surrogate in it
Encodable(s) == \A i \in 1 .. Len(s) : ~Surrogate(s[i])

\* str.encode(): the UTF-8 bytes of a string; a surrogate anywhere in it
\* raises UnicodeEncodeError
encode(s) == IF Encodable(s) THEN Utf8Bytes(s) ELSE UnicodeEncodeError

\* a & b for all pairs of 4-bit numbers: entry 16 * a + b + 1
And4 ==
    <<>> \o [k \in 1 .. 256 |->
                LET a == (k - 1) \div 16
                    b == (k - 1) % 16
                IN  (a % 2) * (b % 2)
                    + 2 * ((a \div 2) % 2) * ((b \div 2) % 2)
                    + 4 * ((a \div 4) % 2) * ((b \div 4) % 2)
                    + 8 * (a \div 8) * (b \div 8)]

\* a & b for 16-bit numbers
And16(a, b) ==
    And4[16 * (a % 16) + (b % 16) + 1]
    + 16 * And4[16 * ((a \div 16) % 16) + ((b \div 16) % 16) + 1]
    + 256 * And4[16 * ((a \div 256) % 16) + ((b \div 256) % 16) + 1]
    + 4096 * And4[16 * (a \div 4096) + (b \div 4096) + 1]

\* a 32-bit word of the digest computation is the pair <<high, low>> of its
\* 16-bit halves
And32(x, y) == <<And16(x[1], y[1]), And16(x[2], y[2])>>

Or32(x, y) ==
    <<x[1] + y[1] - And16(x[1], y[1]), x[2] + y[2] - And16(x[2], y[2])>>

Xor32(x, y) ==
    <<x[1] + y[1] - 2 * And16(x[1], y[1]), x[2] + y[2] - 2 * And16(x[2], y[2])>>

Not32(x) == <<65535 - x[1], 65535 - x[2]>>

\* x + y modulo 2^32
Add32(x, y) ==
    LET low == x[2] + y[2]
    IN  <<(x[1] + y[1] + (low \div 65536)) % 65536, low % 65536>>

\* x rotated left by s bits, 0 < s < 32
RotL32(x, s) ==
    LET y == IF s >= 16 THEN <<x[2], x[1]>> ELSE x
        r == s % 16
    IN  IF r = 0 THEN y
        ELSE <<((y[1] * (2 ^ r)) % 65536) + (y[2] \div (2 ^ (16 - r))),
               ((y[2] * (2 ^ r)) % 65536) + (y[1] \div (2 ^ (16 - r)))>>

\* the word of four bytes, lowest byte first
WordOfBytes(b) == <<256 * b[4] + b[3], 256 * b[2] + b[1]>>

\* the 64 constants of MD5, floor(2^32 * abs(sin(i + 1))), as halves
Md5K ==
    <<
      <<55146, 42104>>, <<59591, 46934>>, <<9248, 28891>>, <<49597, 52974>>,
      <<62844, 4015>>, <<18311, 50730>>, <<43056, 17939>>, <<64838, 38145>>,
      <<27008, 39128>>, <<35652, 63407>>, <<65535, 23473>>, <<35164, 55230>>,
      <<27536, 4386>>, <<64920, 29075>>, <<42617, 17294>>, <<18868, 2081>>,
      <<63006, 9570>>, <<49216, 45888>>, <<9822, 23121>>, <<59830, 51114>>,
      <<54831, 4189>>, <<580, 5203>>, <<55457, 59009>>, <<59347, 64456>>,
      <<8673, 52710>>, <<49975, 2006>>, <<62677, 3463>>, <<17754, 5357>>,
      <<43491, 59653>>, <<64751, 41976>>, <<26479, 729>>, <<36138, 19594>>,
      <<65530, 14658>>, <<34673, 63105>>, <<28061, 24866>>, <<64997, 14348>>,
      <<42174, 59972>>, <<19422, 53161>>, <<63163, 19296>>, <<48831, 48240>>,
      <<10395, 32454>>, <<60065, 10234>>, <<54511, 12421>>, <<1160, 7429>>,
      <<55764, 53305>>, <<59099, 39397>>, <<8098, 31992>>, <<50348, 22117>>,
      <<62505, 8772>>, <<17194, 65431>>, <<43924, 9127>>, <<64659, 41017>>,
      <<25947, 22979>>, <<36620, 52370>>, <<65519, 62589>>, <<34180, 24017>>,
      <<28584, 32335>>, <<65068, 59104>>, <<41729, 17172>>, <<19976, 4513>>,
      <<63315, 32386>>, <<48442, 62005>>, <<10967, 53947>>, <<60294, 54161>>
    >>

\* the shift of round i (0-based)
Md5Shift(i) ==
    LET shifts == << <<7, 12, 17, 22>>, <<5, 9, 14, 20>>,
                     <<4, 11, 16, 23>>, <<6, 10, 15, 21>> >>
    IN  shifts[(i \div 16) + 1][(i % 4) + 1]

\* byte i (1 is the lowest) of the 64-bit number 8 * n, the length in bits of
\* n bytes: (8 * n \div 256 ^ (i - 1)) % 256, written without a number above
\* 2^31, which no length reaches
Md5LengthByte(n, i) ==
    IF i = 1 THEN 8 * (n % 32)
    ELSE IF i <= 5 THEN (n \div (32 * (256 ^ (i - 2)))) % 256
    ELSE 0

\* bytes with the padding of MD5: 0x80, zeros up to 56 modulo 64, and the
\* length in bits as 8 bytes, lowest first
Md5Pad(bytes) ==
    LET n == Len(bytes)
        zeros == (55 - n) % 64
    IN  bytes \o <<128>> \o [i \in 1 .. zeros |-> 0]
              \o [i \in 1 .. 8 |-> Md5LengthByte(n, i)]

\* round i (0-based) on the state st = <<A, B, C, D>> with the 16 words m of
\* the block
Md5Round(st, m, i) ==
    LET A == st[1]
        B == st[2]
        C == st[3]
        D == st[4]
        F == CASE i < 16 -> Or32(And32(B, C), And32(Not32(B), D))
               [] i >= 16 /\ i < 32 -> Or32(And32(D, B), And32(Not32(D), C))
               [] i >= 32 /\ i < 48 -> Xor32(B, Xor32(C, D))
               [] i >= 48 -> Xor32(C, Or32(B, Not32(D)))
        g == CASE i < 16 -> i
               [] i >= 16 /\ i < 32 -> (5 * i + 1) % 16
               [] i >= 32 /\ i < 48 -> (3 * i + 5) % 16
               [] i >= 48 -> (7 * i) % 16
        sum == Add32(Add32(F, A), Add32(Md5K[i + 1], m[g + 1]))
    IN  <<D, Add32(B, RotL32(sum, Md5Shift(i))), B, C>>

RECURSIVE Md5Rounds(_, _, _, _)
\* the rounds from .. to - 1 on the state st, a half of them at a time
Md5Rounds(st, m, from, to) ==
    IF to - from = 1 THEN Md5Round(st, m, from)
    ELSE LET mid == (from + to) \div 2
             half == Md5Rounds(st, m, from, mid)
             \* Len(half) has the first half computed before the second
             \* begins
         IN  IF Len(half) = 4 THEN Md5Rounds(half, m, mid, to) ELSE half

\* the 16 words of the 64-byte block number j (1-based) of the padded bytes
Md5Words(padded, j) ==
    <<>> \o [k \in 1 .. 16 |->
                WordOfBytes(SubSeq(padded, 64 * j + 4 * k - 67,
                                   64 * j + 4 * k - 64))]

\* the states st and r added word by word
Md5Sum(st, r) ==
    <<Add32(st[1], r[1]), Add32(st[2], r[2]),
      Add32(st[3], r[3]), Add32(st[4], r[4])>>

\* the state after the 64-byte block number j (1-based) of the padded bytes
Md5Block(st, padded, j) ==
    Md5Sum(st, Md5Rounds(st, Md5Words(padded, j), 0, 64))

RECURSIVE Md5Blocks(_, _, _, _)
\* the blocks from .. to - 1 on the state st, a half of them at a time
Md5Blocks(st, padded, from, to) ==
    IF to - from = 1 THEN Md5Block(st, padded, from)
    ELSE LET mid == (from + to) \div 2
             half == Md5Blocks(st, padded, from, mid)
             \* Len(half) has the first half computed before the second
             \* begins
         IN  IF Len(half) = 4 THEN Md5Blocks(half, padded, mid, to) ELSE half

\* hashlib.md5(bytes): the four words of the digest
md5(bytes) ==
    LET padded == Md5Pad(bytes)
    IN  Md5Blocks(<< <<26437, 8961>>, <<61389, 43913>>,
                     <<39098, 56574>>, <<4146, 21622>> >>,
                  padded, 1, (Len(padded) \div 64) + 1)

\* a hex digit as a code point
HexDigit(n) == IF n < 10 THEN 48 + n ELSE 87 + n

\* the two hex digits of a byte
HexOfByte(b) == <<HexDigit(b \div 16), HexDigit(b % 16)>>

\* the 8 hex digits of a word, lowest byte first
HexOfWord(w) ==
    HexOfByte(w[2] % 256) \o HexOfByte(w[2] \div 256)
        \o HexOfByte(w[1] % 256) \o HexOfByte(w[1] \div 256)

\* .hexdigest(): the 32 hex digits of a digest
hexdigest(digest) ==
    HexOfWord(digest[1]) \o HexOfWord(digest[2])
        \o HexOfWord(digest[3]) \o HexOfWord(digest[4])

\* data = f"{op_type.value}{position}{timestamp}{agent_id}": the four fields
\* written one after the other with nothing between them (ts and g are
\* strings)
OpIdData(t, p, ts, g) == TypeValue(t) \o Str(p) \o ts \o g

\* the op_id Operation.__post_init__ generates:
\* hashlib.md5(data.encode()).hexdigest()[:8], or the exception of encode()
OpId(t, p, ts, g) ==
    LET data == OpIdData(t, p, ts, g)
    IN  IF Encodable(data) THEN SliceTo(hexdigest(md5(encode(data))), 8)
        ELSE UnicodeEncodeError

\* Operation.__post_init__ at clock reading now on the object o the generated
\* __init__ has filled: an empty timestamp is replaced by the time of
\* construction, an empty op_id by the generated one; the exception of
\* encode() leaves __post_init__ and the constructor
PostInit(o, now) ==
    LET ts == IF Len(o.timestamp) > 0 THEN o.timestamp ELSE Isoformat(now)
    IN  IF Len(o.op_id) > 0 THEN [o EXCEPT !.timestamp = ts]
        ELSE IF ~Encodable(OpIdData(o.op_type, o.position, ts, o.agent_id))
        THEN UnicodeEncodeError
        ELSE [o EXCEPT !.timestamp = ts,
                       !.op_id = OpId(o.op_type, o.position, ts, o.agent_id)]

\* Operation(op_type, position, content, length, attributes, agent_id,
\*           timestamp, op_id) called at clock reading now: the dataclass
\* stores its eight fields and runs __post_init__; the result is the new
\* object, or the exception __post_init__ raised
Operation(op_type, position, content, length, attributes, agent_id, timestamp, op_id, now) ==
    PostInit([op_type |-> op_type, position |-> position, content |-> content,
              length |-> length, attributes |-> attributes,
              agent_id |-> agent_id, timestamp |-> timestamp,
              op_id |-> op_id], now)

----------------------------------------------------------------------------
(* DocumentState *)

\* DocumentState.__init__
DocumentState(document_id) ==
    [document_id |-> document_id, content |-> <<>>, version |-> 0,
     operations |-> <<>>]

\* a variant of InsertGuard that does not check the position against len(content)
InsertGuardNoUpperBound(ds, op) ==
    TruthyStr(op.content) /\ 0 <= op.position

\* the guard of the INSERT branch
InsertGuard(ds, op) ==
    TruthyStr(op.content) /\ 0 <= op.position /\ op.position <= Len(ds.content)

\* a variant of InsertContent that resumes one character late:
\* content[:position] + op.content + content[position + 1:]
InsertContentOverwrites(content, op) ==
    SliceTo(content, op.position) \o Val(op.content)
        \o SliceFrom(content, op.position + 1)

\* content[:position] + op.content + content[position:]
InsertContent(content, op) ==
    SliceTo(content, op.position) \o Val(op.content) \o SliceFrom(content, op.position)

\* a variant of DeleteGuard that accepts position = len(content)
DeleteGuardInclusive(ds, op) ==
    TruthyInt(op.length) /\ 0 <= op.position /\ op.position <= Len(ds.content)

\* the guard of the DELETE branch
DeleteGuard(ds, op) ==
    TruthyInt(op.length) /\ 0 <= op.position /\ op.position < Len(ds.content)

\* a variant of EndPos that clamps to the last index: min(position + length, len(content) - 1)
EndPosLastIndex(content, op) == Min(op.position + Val(op.length), Len(content) - 1)

\* end_pos = min(position + length, len(content))
EndPos(content, op) == Min(op.position + Val(op.length), Len(content))

\* content[:position] + content[end_pos:]
DeleteContent(content, op) ==
    SliceTo(content, op.position) \o SliceFrom(content, EndPos(content, op))

\* self.version += 1; self.operations.append(op)
Logged(ds, op) ==
    [ds EXCEPT !.version = ds.version + 1, !.operations = Append(ds.operations, op)]

\* the INSERT branch: the new state and the value returned
ApplyInsert(ds, op) ==
    IF InsertGuard(ds, op)
    THEN [ds |-> Logged([ds EXCEPT !.content = InsertContent(ds.content, op)], op),
          ret |-> TRUE]
    ELSE [ds |-> ds, ret |-> FALSE]

\* a variant of ApplyDelete that bumps the version without logging the operation
ApplyDeleteUnlogged(ds, op) ==
    IF DeleteGuard(ds, op)
    THEN [ds |-> [ds EXCEPT !.content = DeleteContent(ds.content, op),
                            !.version = ds.version + 1],
          ret |-> TRUE]
    ELSE [ds |-> ds, ret |-> FALSE]

\* the DELETE branch
ApplyDelete(ds, op) ==
    IF DeleteGuard(ds, op)
    THEN [ds |-> Logged([ds EXCEPT !.content = DeleteContent(ds.content, op)], op),
          ret |-> TRUE]
    ELSE [ds |-> ds, ret |-> FALSE]

\* a variant of ApplyFormat that checks the position like the INSERT branch does
ApplyFormatRangeChecked(ds, op) ==
    IF 0 <= op.position /\ op.position <= Len(ds.content)
    THEN [ds |-> Logged(ds, op), ret |-> TRUE]
    ELSE [ds |-> ds, ret |-> FALSE]

\* the FORMAT branch
ApplyFormat(ds, op) == [ds |-> Logged(ds, op), ret |-> TRUE]

\* DocumentState.apply_operation, as one step taken under self.lock
apply_operation(ds, op) ==
    IF op.op_type = INSERT THEN ApplyInsert(ds, op)
    ELSE IF op.op_type = DELETE THEN ApplyDelete(ds, op)
    ELSE IF op.op_type = FORMAT THEN ApplyFormat(ds, op)
    ELSE [ds |-> ds, ret |-> FALSE]

\* DocumentState.get_state, as one step taken under self.lock
get_state(ds) ==
    [document_id |-> ds.document_id,
     content |-> ds.content,
     version |-> ds.version,
     length |-> Len(ds.content),
     last_operation |-> IF ds.operations # <<>>
                        THEN Some(ds.operations[Len(ds.operations)])
                        ELSE None]

\* x or "" for an Optional[str]
OrEmpty(o) == IF TruthyStr(o) THEN Val(o) ELSE <<>>

\* x or 0 for an Optional[int]
OrZero(o) == IF TruthyInt(o) THEN Val(o) ELSE 0

\* Operation(op_type=op1.op_type, position=position, content=op1.content,
\*           agent_id=op1.agent_id) built at clock reading now: length and
\* attributes take their default, timestamp and op_id are left out, so
\* __post_init__ gives the new Operation the time of its construction and
\* the op_id of its own fields
MovedInsert(op1, position, now) ==
    Operation(op1.op_type, position, op1.content, None, None, op1.agent_id,
              EmptyStr, EmptyStr, now)

\* Operation(op_type=op1.op_type, position=position, length=op1.length,
\*           agent_id=op1.agent_id) built at clock reading now: content and
\* attributes take their default, timestamp and op_id are generated
MovedDelete(op1, position, now) ==
    Operation(op1.op_type, position, None, op1.length, None, op1.agent_id,
              EmptyStr, EmptyStr, now)

\* a variant of TransformInsertInsert without the agent_id tie-break
TransformInsertInsertNoTie(op1, op2, now) ==
    IF op1.position <= op2.position THEN op1
    ELSE MovedInsert(op1, op1.position + Len(OrEmpty(op2.content)), now)

\* a variant of TransformInsertInsert that moves op1 at equal positions
\* whatever the agent ids are
TransformInsertInsertTieMoves(op1, op2, now) ==
    IF op1.position < op2.position THEN op1
    ELSE MovedInsert(op1, op1.position + Len(OrEmpty(op2.content)), now)

\* a variant of TransformInsertInsert that moves op1 by one character
TransformInsertInsertByOne(op1, op2, now) ==
    IF op1.position < op2.position THEN op1
    ELSE IF op1.position > op2.position
         THEN MovedInsert(op1, op1.position + 1, now)
    ELSE IF StrLess(op1.agent_id, op2.agent_id) THEN op1
    ELSE MovedInsert(op1, op1.position + 1, now)

\* transform_operation, INSERT against INSERT, called at clock reading now
TransformInsertInsert(op1, op2, now) ==
    IF op1.position < op2.position THEN op1
    ELSE IF op1.position > op2.position
         THEN MovedInsert(op1, op1.position + Len(OrEmpty(op2.content)), now)
    ELSE IF StrLess(op1.agent_id, op2.agent_id) THEN op1
    ELSE MovedInsert(op1, op1.position + Len(OrEmpty(op2.content)), now)

\* a variant of TransformDeleteInsert that compares with <= instead of <
TransformDeleteInsertLeq(op1, op2, now) ==
    IF op1.position <= op2.position THEN op1
    ELSE MovedDelete(op1, op1.position + Len(OrEmpty(op2.content)), now)

\* transform_operation, DELETE against INSERT, called at clock reading now
TransformDeleteInsert(op1, op2, now) ==
    IF op1.position < op2.position THEN op1
    ELSE MovedDelete(op1, op1.position + Len(OrEmpty(op2.content)), now)

\* a variant of TransformInsertDelete that does not clamp inside the deleted span
TransformInsertDeleteNoClamp(op1, op2, now) ==
    IF op1.position <= op2.position THEN op1
    ELSE MovedInsert(op1, op1.position - OrZero(op2.length), now)

\* transform_operation, INSERT against DELETE, called at clock reading now
TransformInsertDelete(op1, op2, now) ==
    IF op1.position <= op2.position THEN op1
    ELSE IF op1.position > op2.position + OrZero(op2.length)
         THEN MovedInsert(op1, op1.position - OrZero(op2.length), now)
    ELSE MovedInsert(op1, op2.position, now)

\* DocumentState.transform_operation: op1 transformed against op2 by a call
\* made at clock reading now, the reading every Operation(...) of the call
\* gets from datetime.utcnow()
transform_operation(op1, op2, now) ==
    IF op1.op_type = INSERT /\ op2.op_type = INSERT
    THEN TransformInsertInsert(op1, op2, now)
    ELSE IF op1.op_type = DELETE /\ op2.op_type = INSERT
    THEN TransformDeleteInsert(op1, op2, now)
    ELSE IF op1.op_type = INSERT /\ op2.op_type = DELETE
    THEN TransformInsertDelete(op1, op2, now)
    ELSE op1

\* a variant of transform_returns_op1 that hands op1 back whenever the position
\* it computed is op1's own (no clock reading changes the position)
ReturnsOp1WhenPositionSame(op1, op2) ==
    transform_operation(op1, op2, 1).position = op1.position

\* DocumentState.transform_operation ends in `return op1`: the caller gets the
\* object it passed, not a newly constructed Operation
transform_returns_op1(op1, op2) ==
    IF op1.op_type = INSERT /\ op2.op_type = INSERT
    THEN \/ op1.position < op2.position
         \/ op1.position = op2.position /\ StrLess(op1.agent_id, op2.agent_id)
    ELSE IF op1.op_type = DELETE /\ op2.op_type = INSERT
    THEN op1.position < op2.position
    ELSE IF op1.op_type = INSERT /\ op2.op_type = DELETE
    THEN op1.position <= op2.position
    ELSE TRUE

----------------------------------------------------------------------------
(* CollaborativeSession and CollaborationManager *)

\* CollaborativeSession.__init__
CollaborativeSession(document_id) ==
    [document_id |-> document_id,
     document_state |-> DocumentState(document_id),
     connected_agents |-> EmptyDict,
     cursor_positions |-> EmptyDict,
     selection_ranges |-> EmptyDict]

\* d[k] = v
DictSet(d, k, v) == [x \in DOMAIN d \cup {k} |-> IF x = k THEN v ELSE d[x]]

\* a variant of create_session that sets the content of an existing session too
create_session_overwrites(ss, document_id, content) ==
    IF document_id \notin DOMAIN ss
    THEN DictSet(ss, document_id,
                 [CollaborativeSession(document_id)
                    EXCEPT !.document_state.content = content])
    ELSE [ss EXCEPT ![document_id].document_state.content = content]

\* a variant of create_session that makes a new session on every call
create_session_replaces(ss, document_id, content) ==
    DictSet(ss, document_id,
            [CollaborativeSession(document_id)
               EXCEPT !.document_state.content = content])

\* CollaborationManager.create_session: the sessions map after the call
create_session(ss, document_id, content) ==
    IF document_id \notin DOMAIN ss
    THEN DictSet(ss, document_id,
                 [CollaborativeSession(document_id)
                    EXCEPT !.document_state.content = content])
    ELSE ss

\* del d[k]
DictDel(d, k) == [x \in DOMAIN d \ {k} |-> d[x]]

\* CollaborativeSession.add_agent at clock reading now
add_agent(s, agent_id, agent_info, now) ==
    [s EXCEPT !.connected_agents =
                  DictSet(@, agent_id,
                          DictSet(agent_info, "joined_at", Isoformat(now))),
              !.cursor_positions = DictSet(@, agent_id, 0)]

\* a variant of remove_agent that leaves the agent's selection
remove_agent_keeps_selection(s, agent_id) ==
    [s EXCEPT !.connected_agents = DictDel(@, agent_id),
              !.cursor_positions = DictDel(@, agent_id)]

\* CollaborativeSession.remove_agent
remove_agent(s, agent_id) ==
    [s EXCEPT !.connected_agents = DictDel(@, agent_id),
              !.cursor_positions = DictDel(@, agent_id),
              !.selection_ranges = DictDel(@, agent_id)]

\* CollaborativeSession.update_cursor
update_cursor(s, agent_id, position) ==
    [s EXCEPT !.cursor_positions = DictSet(@, agent_id, position)]

\* CollaborativeSession.update_selection
update_selection(s, agent_id, start, end) ==
    [s EXCEPT !.selection_ranges = DictSet(@, agent_id, <<start, end>>)]

\* a reference to the dict object bound to attribute attr of the session of
\* document_id; the attribute is never rebound, only the dict is updated
Ref(document_id, attr) == [of |-> document_id, attr |-> attr]

\* the dict a reference points to, as it is now
Deref(ss, r) ==
    IF r.attr = "cursor_positions" THEN ss[r.of].cursor_positions
    ELSE ss[r.of].selection_ranges

\* CollaborativeSession.get_session_info: the keys of connected_agents (as a
\* set: the order of the list is the order of insertion, which the dicts of
\* the model do not keep), their number, the version, and the session's own
\* cursor_positions and selection_ranges objects, not copies of them
get_session_info(s) ==
    [document_id |-> s.document_id,
     connected_agents |-> DOMAIN s.connected_agents,
     agent_count |-> Cardinality(DOMAIN s.connected_agents),
     document_version |-> s.document_state.version,
     cursor_positions |-> Ref(s.document_id, "cursor_positions"),
     selection_ranges |-> Ref(s.document_id, "selection_ranges")]

\* a variant of get_session that finds only sessions with a connected agent
get_session_with_agents(ss, document_id) ==
    IF document_id \in DOMAIN ss /\ DOMAIN ss[document_id].connected_agents # {}
    THEN Some(document_id)
    ELSE None

\* CollaborationManager.get_session: the key of the session, or None
get_session(ss, document_id) ==
    IF document_id \in DOMAIN ss THEN Some(document_id) ELSE None

\* the result of process_operation when there is no session
SessionNotFound == [success |-> FALSE, error |-> "Session not found"]

\* the result of process_operation when apply_operation returned False
ApplyFailed == [success |-> FALSE, error |-> "Failed to apply operation"]

\* the result of process_operation when apply_operation returned True; the
\* version is read from the DocumentState when the result is built
Success(version, operation) ==
    [success |-> TRUE, new_version |-> version, operation_id |-> operation.op_id]

\* a variant of Succeeded that takes no apply for a success
SucceededNever(success) == FALSE

\* a variant of Succeeded that takes every apply for a success
SucceededAlways(success) == TRUE

\* `if success:`
Succeeded(success) == success

\* a variant of Enqueue that appends the pair twice
EnqueueTwice(queue, document_id, operation) ==
    Append(Append(queue, <<document_id, operation>>), <<document_id, operation>>)

\* self.operation_queue.append((document_id, operation))
Enqueue(queue, document_id, operation) ==
    Append(queue, <<document_id, operation>>)

\* list.index(x), 0-based: the position of the first entry equal to x
Index(log, x) ==
    (CHOOSE i \in 1 .. Len(log) :
        log[i] = x /\ \A j \in 1 .. i - 1 : log[j] # x) - 1

\* CollaborationManager.get_pending_operations:
\* [op for op in operations if operations.index(op) >= since_version]
get_pending_operations(ss, document_id, since_version) ==
    IF get_session(ss, document_id) = None
    THEN <<>>
    ELSE LET operations == ss[document_id].document_state.operations
         IN  SelectSeq(operations,
                       LAMBDA op : Index(operations, op) >= since_version)

----------------------------------------------------------------------------
(* Bounds and inputs *)

\* operations logged per document
MaxOps == 2

Texts == {<<>>, <<"a">>, <<"b">>, <<"a", "b">>}

InitContents == {<<>>, <<"a">>, <<"a", "b">>}

Lengths == {-1, 0, 1, 2}

AttributeValues == {None, Some("bold")}

\* "a", "ab", "b" as code points
AgentIds == {<<97>>, <<97, 98>>, <<98>>}

DocIds == {"d1"}

Threads == {"t1", "t2"}

NoThread == "none"

\* positions below, inside, at the end of and beyond a content
Positions(content) == -1 .. Len(content) + 1

\* the longest content a document reaches: the longest initial content and
\* MaxOps times the longest text inserted
LongestContent == 2 + 2 * MaxOps

\* the operations agent "a" builds at clock reading 1, without timestamp and
\* op_id, for contents up to the longest
SubmittedOps ==
    {Operation(INSERT, p, c, None, None, <<97>>, EmptyStr, EmptyStr, 1) :
        p \in -1 .. LongestContent + 1,
        c \in {None} \cup {Some(t) : t \in Texts}}
    \cup
    {Operation(DELETE, p, None, l, None, <<97>>, EmptyStr, EmptyStr, 1) :
        p \in -1 .. LongestContent + 1,
        l \in {None} \cup {Some(n) : n \in Lengths}}
    \cup
    {Operation(FORMAT, p, None, None, a, <<97>>, EmptyStr, EmptyStr, 1) :
        p \in -1 .. LongestContent + 1, a \in AttributeValues}
    \cup
    {Operation(CURSOR, p, None, None, None, <<97>>, EmptyStr, EmptyStr, 1) :
        p \in -1 .. LongestContent + 1}

\* the operations a caller submits to a document holding content
DocOps(content) == {op \in SubmittedOps : op.position \in Positions(content)}

\* largest position of an operation given to transform_operation
MaxPos == 3

\* readings of the clock (datetime.utcnow()), half a second apart, for the
\* timestamps of operations and of joins
Clock == {1, 2}

\* Delete at 10 with length 3, by agent "a", built at clock reading 1
ExampleDelete == Operation(DELETE, 10, None, Some(3), None, <<97>>, EmptyStr, EmptyStr, 1)

\* Insert "xy" at 5, by agent "b", built at clock reading 1
ExampleInsert ==
    Operation(INSERT, 5, Some(<<"x", "y">>), None, None, <<98>>, EmptyStr, EmptyStr, 1)

\* the operations given to transform_operation, each built by its agent at
\* clock reading 1 without timestamp and op_id
TransformOps ==
    {Operation(INSERT, p, c, None, None, g, EmptyStr, EmptyStr, 1) :
        p \in 0 .. MaxPos, g \in AgentIds,
        c \in {None, Some(<<>>), Some(<<"a">>), Some(<<"a", "b">>)}}
    \cup
    {Operation(DELETE, p, None, l, None, g, EmptyStr, EmptyStr, 1) :
        p \in 0 .. MaxPos, g \in AgentIds, l \in {None, Some(0), Some(1), Some(2)}}
    \cup
    {Operation(FORMAT, 1, None, None, Some("bold"), <<97>>, EmptyStr, EmptyStr, 1),
     Operation(CURSOR, 1, None, None, None, <<98>>, EmptyStr, EmptyStr, 1),
     ExampleDelete, ExampleInsert}

----------------------------------------------------------------------------
(* Sequential specification: every call is one step *)

Idle == [t \in Threads |-> "idle"]

Unlocked == [d \in DocIds |-> NoThread]

NoFrames == [t \in Threads |-> <<>>]

Init ==
    /\ sessions = EmptyDict
    /\ initial_content = EmptyDict
    /\ call = [fn |-> "none"]
    /\ operation_queue = <<>>
    /\ manager_lock = NoThread
    /\ held = <<>>
    /\ pc = Idle
    /\ lock = Unlocked
    /\ frame = NoFrames

\* collab.create_session(d, ic)
CreateSession(d, ic) ==
    /\ sessions' = create_session(sessions, d, ic)
    /\ initial_content' = IF d \in DOMAIN sessions THEN initial_content
                          ELSE DictSet(initial_content, d, ic)
    /\ call' = [fn |-> "create_session", doc |-> d, content |-> ic]
    /\ UNCHANGED <<pc, lock, frame,
                 operation_queue, manager_lock, held>>

\* session.document_state.apply_operation(op) on the session of d
ApplyOperation(d, op) ==
    /\ d \in DOMAIN sessions
    /\ sessions[d].document_state.version < MaxOps
    /\ LET r == apply_operation(sessions[d].document_state, op)
       IN  /\ sessions' = [sessions EXCEPT ![d].document_state = r.ds]
           /\ call' = [fn |-> "apply_operation", doc |-> d, op |-> op, ret |-> r.ret]
    /\ UNCHANGED <<initial_content, pc, lock, frame,
                 operation_queue, manager_lock, held>>

\* session.document_state.get_state() on the session of d
GetState(d) ==
    /\ d \in DOMAIN sessions
    /\ call' = [fn |-> "get_state", doc |-> d,
                ret |-> get_state(sessions[d].document_state)]
    /\ UNCHANGED <<sessions, initial_content, pc, lock, frame,
                 operation_queue, manager_lock, held>>

Next ==
    \/ \E d \in DocIds, ic \in InitContents : CreateSession(d, ic)
    \/ \E d \in DocIds :
          \E op \in DocOps(IF d \in DOMAIN sessions
                           THEN sessions[d].document_state.content ELSE <<>>) :
             ApplyOperation(d, op)
    \/ \E d \in DocIds : GetState(d)

Spec == Init /\ [][Next]_vars

----------------------------------------------------------------------------
(* transform_operation applied to every pair of operations *)

\* a thread holds two operations and is about to transform each against the other
InitTransform ==
    /\ sessions = EmptyDict
    /\ initial_content = EmptyDict
    /\ call = [fn |-> "none"]
    /\ operation_queue = <<>>
    /\ manager_lock = NoThread
    /\ held = <<>>
    /\ lock = Unlocked
    /\ \E a \in TransformOps, b \in TransformOps :
          /\ pc = [Idle EXCEPT !["t1"] = "transform"]
          /\ frame = [NoFrames EXCEPT !["t1"] =
                         [op1 |-> a, op2 |-> b, ab |-> None, ba |-> None]]

\* the call document_state.transform_operation(a, b) made at clock reading
\* now and what it returns: the Operation, and whether it is the object a
\* itself
TransformCall(a, b, now) ==
    [fn |-> "transform_operation", op1 |-> a, op2 |-> b,
     ret |-> transform_operation(a, b, now),
     returned_op1 |-> transform_returns_op1(a, b)]

\* thread t calls ab = document_state.transform_operation(op1, op2)
TransformOperation(t, now) ==
    /\ pc[t] = "transform"
    /\ call' = TransformCall(frame[t].op1, frame[t].op2, now)
    /\ pc' = [pc EXCEPT ![t] = "transform_back"]
    /\ frame' = [frame EXCEPT ![t].ab = Some(call'.ret)]
    /\ UNCHANGED <<sessions, initial_content, lock,
                 operation_queue, manager_lock, held>>

\* thread t calls ba = document_state.transform_operation(op2, op1)
TransformBack(t, now) ==
    /\ pc[t] = "transform_back"
    /\ call' = TransformCall(frame[t].op2, frame[t].op1, now)
    /\ pc' = [pc EXCEPT ![t] = "idle"]
    /\ frame' = [frame EXCEPT ![t].ba = Some(call'.ret)]
    /\ UNCHANGED <<sessions, initial_content, lock,
                 operation_queue, manager_lock, held>>

NextTransform ==
    \E t \in Threads, now \in Clock :
        \/ TransformOperation(t, now)
        \/ TransformBack(t, now)

SpecTransform == InitTransform /\ [][NextTransform]_vars

----------------------------------------------------------------------------
(* Concurrent specification: threads call apply_operation and get_state on  *)
(* one DocumentState, one statement at a time                               *)

\* a variant of LockFree under which acquiring never waits
LockIgnored(l, d) == TRUE

\* a variant of LockFree with one lock for all documents
LockShared(l, d) == \A e \in DOMAIN l : l[e] = NoThread

\* threading.Lock: `with self.lock` can be entered only while nobody holds it
LockFree(l, d) == l[d] = NoThread

\* the operations agent g builds at clock reading 1, without timestamp and
\* op_id
AgentOps(g) ==
    {Operation(INSERT, 0, Some(<<"a">>), None, None, g, EmptyStr, EmptyStr, 1),
     Operation(INSERT, 1, Some(<<"b">>), None, None, g, EmptyStr, EmptyStr, 1),
     Operation(INSERT, 4, Some(<<"a">>), None, None, g, EmptyStr, EmptyStr, 1),
     Operation(DELETE, 0, None, Some(1), None, g, EmptyStr, EmptyStr, 1),
     Operation(DELETE, 1, None, Some(2), None, g, EmptyStr, EmptyStr, 1),
     Operation(FORMAT, 0, None, None, Some("bold"), g, EmptyStr, EmptyStr, 1),
     Operation(CURSOR, 0, None, None, None, g, EmptyStr, EmptyStr, 1)}

ThreadOpsFirst == AgentOps(<<97>>)

ThreadOpsSecond == AgentOps(<<98>>)

\* the operations thread t submits; "t1" is agent "a" and "t2" is agent "b"
ThreadOps(t) == IF t = "t1" THEN ThreadOpsFirst ELSE ThreadOpsSecond

\* a session for every document exists, created with some initial content
InitThreads ==
    /\ \E ic \in [DocIds -> InitContents] :
          /\ sessions = [d \in DocIds |-> create_session(EmptyDict, d, ic[d])[d]]
          /\ initial_content = ic
    /\ call = [fn |-> "none"]
    /\ operation_queue = <<>>
    /\ manager_lock = NoThread
    /\ held = <<>>
    /\ pc = Idle
    /\ lock = Unlocked
    /\ frame = NoFrames

\* thread t calls sessions[d].document_state.apply_operation(op)
BeginApply(t, d, op) ==
    /\ pc[t] = "idle"
    /\ sessions[d].document_state.version < MaxOps
    /\ pc' = [pc EXCEPT ![t] = "apply_lock"]
    /\ frame' = [frame EXCEPT ![t] = [doc |-> d, op |-> op, new |-> <<>>,
                                      tmp |-> 0, ret |-> FALSE]]
    /\ UNCHANGED <<sessions, initial_content, call, lock,
                 operation_queue, manager_lock, held>>

\* with self.lock:
ApplyLock(t) ==
    /\ pc[t] = "apply_lock"
    /\ LockFree(lock, frame[t].doc)
    /\ lock' = [lock EXCEPT ![frame[t].doc] = t]
    /\ pc' = [pc EXCEPT ![t] = "apply_guard"]
    /\ UNCHANGED <<sessions, initial_content, call, frame,
                 operation_queue, manager_lock, held>>

\* the branch on op.op_type and the branch's guard
ApplyGuard(t) ==
    /\ pc[t] = "apply_guard"
    /\ LET ds == sessions[frame[t].doc].document_state
           op == frame[t].op
       IN  pc' = [pc EXCEPT ![t] =
                     IF op.op_type = INSERT /\ InsertGuard(ds, op) THEN "apply_read"
                     ELSE IF op.op_type = DELETE /\ DeleteGuard(ds, op) THEN "apply_read"
                     ELSE IF op.op_type = FORMAT THEN "apply_version_read"
                     ELSE "apply_unlock"]
    /\ UNCHANGED <<sessions, initial_content, call, lock, frame,
                 operation_queue, manager_lock, held>>

\* the right-hand side of the assignment to self.content
ApplyRead(t) ==
    /\ pc[t] = "apply_read"
    /\ LET ds == sessions[frame[t].doc].document_state
           op == frame[t].op
       IN  frame' = [frame EXCEPT ![t].new =
                        IF op.op_type = INSERT THEN InsertContent(ds.content, op)
                        ELSE DeleteContent(ds.content, op)]
    /\ pc' = [pc EXCEPT ![t] = "apply_write"]
    /\ UNCHANGED <<sessions, initial_content, call, lock,
                 operation_queue, manager_lock, held>>

\* self.content = ...
ApplyWrite(t) ==
    /\ pc[t] = "apply_write"
    /\ sessions' = [sessions EXCEPT ![frame[t].doc].document_state.content = frame[t].new]
    /\ pc' = [pc EXCEPT ![t] = "apply_version_read"]
    /\ UNCHANGED <<initial_content, call, lock, frame,
                 operation_queue, manager_lock, held>>

\* self.version += 1, the load
ApplyVersionRead(t) ==
    /\ pc[t] = "apply_version_read"
    /\ frame' = [frame EXCEPT ![t].tmp = sessions[frame[t].doc].document_state.version]
    /\ pc' = [pc EXCEPT ![t] = "apply_version_write"]
    /\ UNCHANGED <<sessions, initial_content, call, lock,
                 operation_queue, manager_lock, held>>

\* self.version += 1, the store
ApplyVersionWrite(t) ==
    /\ pc[t] = "apply_version_write"
    /\ sessions' = [sessions EXCEPT ![frame[t].doc].document_state.version = frame[t].tmp + 1]
    /\ pc' = [pc EXCEPT ![t] = "apply_append"]
    /\ UNCHANGED <<initial_content, call, lock, frame,
                 operation_queue, manager_lock, held>>

\* self.operations.append(op); return True
ApplyAppend(t) ==
    /\ pc[t] = "apply_append"
    /\ sessions' = [sessions EXCEPT ![frame[t].doc].document_state.operations =
                                       Append(@, frame[t].op)]
    /\ frame' = [frame EXCEPT ![t].ret = TRUE]
    /\ pc' = [pc EXCEPT ![t] = "apply_unlock"]
    /\ UNCHANGED <<initial_content, call, lock,
                 operation_queue, manager_lock, held>>

\* leaving `with self.lock`, and the return to the caller
ApplyUnlock(t) ==
    /\ pc[t] = "apply_unlock"
    /\ lock' = [lock EXCEPT ![frame[t].doc] = NoThread]
    /\ call' = [fn |-> "apply_operation", thread |-> t, doc |-> frame[t].doc,
                op |-> frame[t].op, ret |-> frame[t].ret]
    /\ pc' = [pc EXCEPT ![t] = "idle"]
    /\ frame' = [frame EXCEPT ![t] = <<>>]
    /\ UNCHANGED <<sessions, initial_content,
                 operation_queue, manager_lock, held>>

\* thread t calls sessions[d].document_state.get_state()
BeginGetState(t, d) ==
    /\ pc[t] = "idle"
    /\ pc' = [pc EXCEPT ![t] = "state_lock"]
    /\ frame' = [frame EXCEPT ![t] = [doc |-> d, snap |-> EmptyDict]]
    /\ UNCHANGED <<sessions, initial_content, call, lock,
                 operation_queue, manager_lock, held>>

\* with self.lock:
StateLock(t) ==
    /\ pc[t] = "state_lock"
    /\ LockFree(lock, frame[t].doc)
    /\ lock' = [lock EXCEPT ![frame[t].doc] = t]
    /\ pc' = [pc EXCEPT ![t] = "state_content"]
    /\ UNCHANGED <<sessions, initial_content, call, frame,
                 operation_queue, manager_lock, held>>

\* 'document_id': self.document_id, 'content': self.content
StateContent(t) ==
    /\ pc[t] = "state_content"
    /\ LET ds == sessions[frame[t].doc].document_state
       IN  frame' = [frame EXCEPT ![t].snap =
                        DictSet(DictSet(@, "document_id", ds.document_id),
                                "content", ds.content)]
    /\ pc' = [pc EXCEPT ![t] = "state_version"]
    /\ UNCHANGED <<sessions, initial_content, call, lock,
                 operation_queue, manager_lock, held>>

\* 'version': self.version
StateVersion(t) ==
    /\ pc[t] = "state_version"
    /\ frame' = [frame EXCEPT ![t].snap =
                    DictSet(@, "version", sessions[frame[t].doc].document_state.version)]
    /\ pc' = [pc EXCEPT ![t] = "state_length"]
    /\ UNCHANGED <<sessions, initial_content, call, lock,
                 operation_queue, manager_lock, held>>

\* 'length': len(self.content)
StateLength(t) ==
    /\ pc[t] = "state_length"
    /\ frame' = [frame EXCEPT ![t].snap =
                    DictSet(@, "length", Len(sessions[frame[t].doc].document_state.content))]
    /\ pc' = [pc EXCEPT ![t] = "state_last"]
    /\ UNCHANGED <<sessions, initial_content, call, lock,
                 operation_queue, manager_lock, held>>

\* 'last_operation': asdict(self.operations[-1]) if self.operations else None
StateLast(t) ==
    /\ pc[t] = "state_last"
    /\ frame' = [frame EXCEPT ![t].snap =
                    DictSet(@, "last_operation",
                            get_state(sessions[frame[t].doc].document_state).last_operation)]
    /\ pc' = [pc EXCEPT ![t] = "state_unlock"]
    /\ UNCHANGED <<sessions, initial_content, call, lock,
                 operation_queue, manager_lock, held>>

\* leaving `with self.lock`, and the return to the caller
StateUnlock(t) ==
    /\ pc[t] = "state_unlock"
    /\ lock' = [lock EXCEPT ![frame[t].doc] = NoThread]
    /\ call' = [fn |-> "get_state", thread |-> t, doc |-> frame[t].doc,
                ret |-> frame[t].snap]
    /\ pc' = [pc EXCEPT ![t] = "idle"]
    /\ frame' = [frame EXCEPT ![t] = <<>>]
    /\ UNCHANGED <<sessions, initial_content,
                 operation_queue, manager_lock, held>>

NextThreads ==
    \E t \in Threads :
        \/ \E d \in DocIds, op \in ThreadOps(t) : BeginApply(t, d, op)
        \/ ApplyLock(t)
        \/ ApplyGuard(t)
        \/ ApplyRead(t)
        \/ ApplyWrite(t)
        \/ ApplyVersionRead(t)
        \/ ApplyVersionWrite(t)
        \/ ApplyAppend(t)
        \/ ApplyUnlock(t)
        \/ \E d \in DocIds : BeginGetState(t, d)
        \/ StateLock(t)
        \/ StateContent(t)
        \/ StateVersion(t)
        \/ StateLength(t)
        \/ StateLast(t)
        \/ StateUnlock(t)

SpecThreads == InitThreads /\ [][NextThreads]_vars

----------------------------------------------------------------------------
(* Manager specification: one caller at a time creates sessions, applies
   operations to their DocumentStates and reads the pending operations; each
   of these calls runs under one lock from beginning to end and is one step *)

ManagerDocs == {"d1", "d2"}

ManagerContents == {<<>>, <<"a">>}

\* the operations applied: an Insert built at two different times, a Delete,
\* an Insert far to the right, a Cursor
ManagerOps ==
    {Operation(INSERT, 0, Some(<<"a">>), None, None, <<97>>, EmptyStr, EmptyStr, now) :
        now \in Clock}
    \cup
    {Operation(DELETE, 0, None, Some(1), None, <<98>>, EmptyStr, EmptyStr, 1),
     Operation(INSERT, 3, Some(<<"b">>), None, None, <<97>>, EmptyStr, EmptyStr, 1),
     Operation(CURSOR, 0, None, None, None, <<98>>, EmptyStr, EmptyStr, 1)}

\* the since_version arguments of get_pending_operations
SinceVersions == -1 .. MaxOps + 1

\* collab.get_pending_operations(d, since)
GetPendingOperations(d, since) ==
    /\ call' = [fn |-> "get_pending_operations", doc |-> d, since |-> since,
                ret |-> get_pending_operations(sessions, d, since)]
    /\ UNCHANGED <<sessions, initial_content, pc, lock, frame,
                 operation_queue, manager_lock, held>>

NextManager ==
    \/ \E d \in ManagerDocs, ic \in ManagerContents : CreateSession(d, ic)
    \/ \E d \in ManagerDocs, op \in ManagerOps : ApplyOperation(d, op)
    \/ \E d \in ManagerDocs, since \in SinceVersions :
          GetPendingOperations(d, since)

SpecManager == Init /\ [][NextManager]_vars

----------------------------------------------------------------------------
(* Session specification: one caller at a time calls one session, its
   DocumentState and its manager, each call one step; held keeps the result of the last get_session_info call together
   with the values its two dicts had when it was returned *)

\* "a" and "b" as code points
SessionAgents == {<<97>>, <<98>>}

AgentInfos == {[name |-> "A"]}

CursorInputs == {5}

SelectionInputs == {<<0, 1>>}

\* the operation submitted to the session's document
SessionOps == {Operation(INSERT, 0, Some(<<"a">>), None, None, <<97>>, EmptyStr, EmptyStr, 1)}

\* session.add_agent(a, info) at clock reading now
AddAgent(d, a, info, now) ==
    /\ d \in DOMAIN sessions
    /\ sessions' = [sessions EXCEPT ![d] = add_agent(@, a, info, now)]
    /\ call' = [fn |-> "add_agent", doc |-> d, agent |-> a]
    /\ UNCHANGED <<initial_content, pc, lock, frame,
                 operation_queue, manager_lock, held>>

\* session.remove_agent(a)
RemoveAgent(d, a) ==
    /\ d \in DOMAIN sessions
    /\ sessions' = [sessions EXCEPT ![d] = remove_agent(@, a)]
    /\ call' = [fn |-> "remove_agent", doc |-> d, agent |-> a]
    /\ UNCHANGED <<initial_content, pc, lock, frame,
                 operation_queue, manager_lock, held>>

\* session.update_cursor(a, position)
UpdateCursor(d, a, position) ==
    /\ d \in DOMAIN sessions
    /\ sessions' = [sessions EXCEPT ![d] = update_cursor(@, a, position)]
    /\ call' = [fn |-> "update_cursor", doc |-> d, agent |-> a]
    /\ UNCHANGED <<initial_content, pc, lock, frame,
                 operation_queue, manager_lock, held>>

\* session.update_selection(a, start, end)
UpdateSelection(d, a, range) ==
    /\ d \in DOMAIN sessions
    /\ sessions' = [sessions EXCEPT
                      ![d] = update_selection(@, a, range[1], range[2])]
    /\ call' = [fn |-> "update_selection", doc |-> d, agent |-> a]
    /\ UNCHANGED <<initial_content, pc, lock, frame,
                 operation_queue, manager_lock, held>>

\* info = session.get_session_info(); the caller keeps info
GetSessionInfo(d) ==
    /\ d \in DOMAIN sessions
    /\ LET info == get_session_info(sessions[d])
       IN  /\ call' = [fn |-> "get_session_info", doc |-> d, ret |-> info]
           /\ held' = <<[info |-> info,
                         cursor_positions |-> sessions[d].cursor_positions,
                         selection_ranges |-> sessions[d].selection_ranges]>>
    /\ UNCHANGED <<sessions, initial_content, pc, lock, frame,
                 operation_queue, manager_lock>>

\* the clock readings at which agents join
JoinTimes == {1}

\* collab.get_session(d)
GetSession(d) ==
    /\ call' = [fn |-> "get_session", doc |-> d, ret |-> get_session(sessions, d)]
    /\ UNCHANGED <<sessions, initial_content, pc, lock, frame,
                 operation_queue, manager_lock, held>>

NextSession ==
    \/ \E d \in DocIds, ic \in ManagerContents : CreateSession(d, ic)
    \/ \E d \in DocIds, op \in SessionOps : ApplyOperation(d, op)
    \/ \E d \in DocIds, a \in SessionAgents, info \in AgentInfos, now \in JoinTimes :
          AddAgent(d, a, info, now)
    \/ \E d \in DocIds, a \in SessionAgents : RemoveAgent(d, a)
    \/ \E d \in DocIds, a \in SessionAgents, position \in CursorInputs :
          UpdateCursor(d, a, position)
    \/ \E d \in DocIds, a \in SessionAgents, range \in SelectionInputs :
          UpdateSelection(d, a, range)
    \/ \E d \in DocIds : GetSessionInfo(d)
    \/ \E d \in DocIds : GetSession(d)

SpecSession == Init /\ [][NextSession]_vars

----------------------------------------------------------------------------
(* Process specification: threads call create_session and process_operation
   on one manager; process_operation runs step by step, and held keeps the
   results of its successful calls *)

\* the operations of thread "t1", which is agent "a"
ProcessOpsFirst ==
    {Operation(INSERT, 0, Some(<<"a">>), None, None, <<97>>, EmptyStr, EmptyStr, 1),
     Operation(CURSOR, 0, None, None, None, <<97>>, EmptyStr, EmptyStr, 1)}

\* the operations of thread "t2", which is agent "b"
ProcessOpsSecond ==
    {Operation(INSERT, 0, Some(<<"b">>), None, None, <<98>>, EmptyStr, EmptyStr, 1)}

\* the operations thread t submits
ProcessOps(t) == IF t = "t1" THEN ProcessOpsFirst ELSE ProcessOpsSecond

\* operations the threads get logged, over all documents
MaxProcessed == 2

RECURSIVE SumVersions(_, _)
\* the sum of the versions of the documents in ds
SumVersions(ss, ds) ==
    IF ds = {} THEN 0
    ELSE LET d == CHOOSE e \in ds : TRUE
         IN  ss[d].document_state.version + SumVersions(ss, ds \ {d})

\* operations logged so far, over all documents
TotalLogged == SumVersions(sessions, DOMAIN sessions)

\* the positions of a thread inside process_operation
ProcessPcs ==
    {"process_lookup", "process_apply_lock", "process_apply",
     "process_queue_lock", "process_enqueue", "process_return"}

\* process_operation calls that have begun and not returned
InFlight == Cardinality({t \in Threads : pc[t] \in ProcessPcs})

InitProcess ==
    /\ sessions = EmptyDict
    /\ initial_content = EmptyDict
    /\ call = [fn |-> "none"]
    /\ operation_queue = <<>>
    /\ manager_lock = NoThread
    /\ held = <<>>
    /\ pc = Idle
    /\ lock = [d \in ManagerDocs |-> NoThread]
    /\ frame = NoFrames

\* thread t calls collab.create_session(d, ic); the whole body runs while t
\* holds the manager lock
ThreadCreateSession(t, d, ic) ==
    /\ pc[t] = "idle"
    /\ manager_lock = NoThread
    /\ CreateSession(d, ic)

\* thread t calls collab.process_operation(d, op)
BeginProcess(t, d, op) ==
    /\ pc[t] = "idle"
    /\ TotalLogged + InFlight < MaxProcessed
    /\ pc' = [pc EXCEPT ![t] = "process_lookup"]
    /\ frame' = [frame EXCEPT ![t] = [doc |-> d, op |-> op, success |-> FALSE]]
    /\ UNCHANGED <<sessions, initial_content, call, lock,
                 operation_queue, manager_lock, held>>

\* a variant of ProcessLookup that creates the session it does not find
ProcessLookupCreating(t) ==
    /\ pc[t] = "process_lookup"
    /\ sessions' = create_session(sessions, frame[t].doc, <<>>)
    /\ initial_content' = IF frame[t].doc \in DOMAIN sessions
                          THEN initial_content
                          ELSE DictSet(initial_content, frame[t].doc, <<>>)
    /\ pc' = [pc EXCEPT ![t] = "process_apply_lock"]
    /\ UNCHANGED <<call, lock, frame, operation_queue, manager_lock, held>>

\* session = self.get_session(document_id); if not session: return {...}
ProcessLookup(t) ==
    /\ pc[t] = "process_lookup"
    /\ IF get_session(sessions, frame[t].doc) = None
       THEN /\ call' = [fn |-> "process_operation", thread |-> t,
                        doc |-> frame[t].doc, op |-> frame[t].op,
                        ret |-> SessionNotFound]
            /\ pc' = [pc EXCEPT ![t] = "idle"]
            /\ frame' = [frame EXCEPT ![t] = <<>>]
       ELSE /\ pc' = [pc EXCEPT ![t] = "process_apply_lock"]
            /\ UNCHANGED <<call, frame>>
    /\ UNCHANGED <<sessions, initial_content, lock,
                 operation_queue, manager_lock, held>>

\* apply_operation: with self.lock
ProcessApplyLock(t) ==
    /\ pc[t] = "process_apply_lock"
    /\ LockFree(lock, frame[t].doc)
    /\ lock' = [lock EXCEPT ![frame[t].doc] = t]
    /\ pc' = [pc EXCEPT ![t] = "process_apply"]
    /\ UNCHANGED <<sessions, initial_content, call, frame,
                 operation_queue, manager_lock, held>>

\* success = session.document_state.apply_operation(operation): the body
\* under the lock and the release of the lock, then `if success:`
ProcessApply(t) ==
    /\ pc[t] = "process_apply"
    /\ LET d == frame[t].doc
           r == apply_operation(sessions[d].document_state, frame[t].op)
       IN  /\ sessions' = [sessions EXCEPT ![d].document_state = r.ds]
           /\ lock' = [lock EXCEPT ![d] = NoThread]
           /\ frame' = [frame EXCEPT ![t].success = r.ret]
           /\ pc' = [pc EXCEPT ![t] = IF Succeeded(r.ret)
                                       THEN "process_queue_lock"
                                       ELSE "process_return"]
    /\ UNCHANGED <<initial_content, call, operation_queue, manager_lock, held>>

\* with self.lock: (the manager's lock)
ProcessQueueLock(t) ==
    /\ pc[t] = "process_queue_lock"
    /\ manager_lock = NoThread
    /\ manager_lock' = t
    /\ pc' = [pc EXCEPT ![t] = "process_enqueue"]
    /\ UNCHANGED <<sessions, initial_content, call, lock, frame,
                 operation_queue, held>>

\* self.operation_queue.append((document_id, operation)), and the release of
\* the manager's lock
ProcessEnqueue(t) ==
    /\ pc[t] = "process_enqueue"
    /\ operation_queue' = Enqueue(operation_queue, frame[t].doc, frame[t].op)
    /\ manager_lock' = NoThread
    /\ pc' = [pc EXCEPT ![t] = "process_return"]
    /\ UNCHANGED <<sessions, initial_content, call, lock, frame, held>>

\* return {...}: on success the version is read now, without the
\* DocumentState's lock; the caller keeps a successful result
ProcessReturn(t) ==
    /\ pc[t] = "process_return"
    /\ LET d == frame[t].doc
           ret == IF Succeeded(frame[t].success)
                  THEN Success(sessions[d].document_state.version, frame[t].op)
                  ELSE ApplyFailed
       IN  /\ call' = [fn |-> "process_operation", thread |-> t, doc |-> d,
                       op |-> frame[t].op, ret |-> ret]
           /\ held' = IF ret.success
                      THEN Append(held, [thread |-> t, doc |-> d,
                                         op |-> frame[t].op, ret |-> ret])
                      ELSE held
    /\ pc' = [pc EXCEPT ![t] = "idle"]
    /\ frame' = [frame EXCEPT ![t] = <<>>]
    /\ UNCHANGED <<sessions, initial_content, lock,
                 operation_queue, manager_lock>>

NextProcess ==
    \E t \in Threads :
        \/ \E d \in ManagerDocs, ic \in ManagerContents :
              ThreadCreateSession(t, d, ic)
        \/ \E d \in ManagerDocs, op \in ProcessOps(t) : BeginProcess(t, d, op)
        \/ ProcessLookup(t)
        \/ ProcessApplyLock(t)
        \/ ProcessApply(t)
        \/ ProcessQueueLock(t)
        \/ ProcessEnqueue(t)
        \/ ProcessReturn(t)

SpecProcess == InitProcess /\ [][NextProcess]_vars

----------------------------------------------------------------------------
(* Calls specification: threads call create_session, process_operation,
   get_pending_operations and get_state for one document, and every thread
   that is inside a call and can take its next step is scheduled *)

\* the since_version arguments the threads pass
CallSince == {1}

\* the initial_content arguments the threads pass
CallContents == {<<"a">>}

\* thread t calls collab.get_pending_operations(d, since)
BeginPending(t, d, since) ==
    /\ pc[t] = "idle"
    /\ pc' = [pc EXCEPT ![t] = "pending_lookup"]
    /\ frame' = [frame EXCEPT ![t] = [doc |-> d, since |-> since]]
    /\ UNCHANGED <<sessions, initial_content, call, lock,
                 operation_queue, manager_lock, held>>

\* session = self.get_session(document_id); if not session: return []
PendingLookup(t) ==
    /\ pc[t] = "pending_lookup"
    /\ IF get_session(sessions, frame[t].doc) = None
       THEN /\ call' = [fn |-> "get_pending_operations", thread |-> t,
                        doc |-> frame[t].doc, since |-> frame[t].since,
                        ret |-> <<>>]
            /\ pc' = [pc EXCEPT ![t] = "idle"]
            /\ frame' = [frame EXCEPT ![t] = <<>>]
       ELSE /\ pc' = [pc EXCEPT ![t] = "pending_lock"]
            /\ UNCHANGED <<call, frame>>
    /\ UNCHANGED <<sessions, initial_content, lock,
                 operation_queue, manager_lock, held>>

\* with session.document_state.lock:
PendingLock(t) ==
    /\ pc[t] = "pending_lock"
    /\ LockFree(lock, frame[t].doc)
    /\ lock' = [lock EXCEPT ![frame[t].doc] = t]
    /\ pc' = [pc EXCEPT ![t] = "pending_read"]
    /\ UNCHANGED <<sessions, initial_content, call, frame,
                 operation_queue, manager_lock, held>>

\* return [op for op in ... if ...index(op) >= since_version], and the
\* release of the lock
PendingRead(t) ==
    /\ pc[t] = "pending_read"
    /\ call' = [fn |-> "get_pending_operations", thread |-> t,
                doc |-> frame[t].doc, since |-> frame[t].since,
                ret |-> get_pending_operations(sessions, frame[t].doc,
                                               frame[t].since)]
    /\ lock' = [lock EXCEPT ![frame[t].doc] = NoThread]
    /\ pc' = [pc EXCEPT ![t] = "idle"]
    /\ frame' = [frame EXCEPT ![t] = <<>>]
    /\ UNCHANGED <<sessions, initial_content,
                 operation_queue, manager_lock, held>>

\* thread t calls collab.create_session(d, ic)
BeginCreate(t, d, ic) ==
    /\ pc[t] = "idle"
    /\ pc' = [pc EXCEPT ![t] = "create_lock"]
    /\ frame' = [frame EXCEPT ![t] = [doc |-> d, content |-> ic]]
    /\ UNCHANGED <<sessions, initial_content, call, lock,
                 operation_queue, manager_lock, held>>

\* with self.lock: (the manager's lock)
CreateLock(t) ==
    /\ pc[t] = "create_lock"
    /\ manager_lock = NoThread
    /\ manager_lock' = t
    /\ pc' = [pc EXCEPT ![t] = "create_body"]
    /\ UNCHANGED <<sessions, initial_content, call, lock, frame,
                 operation_queue, held>>

\* a variant of ManagerLockLeft in which the lock stays with the thread
ManagerLockKept(t) == t

\* the manager's lock after thread t has left `with self.lock`
ManagerLockLeft(t) == NoThread

\* the body of create_session, and the release of the manager's lock
CreateBody(t) ==
    /\ pc[t] = "create_body"
    /\ sessions' = create_session(sessions, frame[t].doc, frame[t].content)
    /\ initial_content' = IF frame[t].doc \in DOMAIN sessions
                          THEN initial_content
                          ELSE DictSet(initial_content, frame[t].doc,
                                       frame[t].content)
    /\ call' = [fn |-> "create_session", doc |-> frame[t].doc,
                content |-> frame[t].content]
    /\ manager_lock' = ManagerLockLeft(t)
    /\ pc' = [pc EXCEPT ![t] = "idle"]
    /\ frame' = [frame EXCEPT ![t] = <<>>]
    /\ UNCHANGED <<lock, operation_queue, held>>

\* a step of thread t inside a call it has begun
Continue(t) ==
    \/ CreateLock(t)
    \/ CreateBody(t)
    \/ ProcessLookup(t)
    \/ ProcessApplyLock(t)
    \/ ProcessApply(t)
    \/ ProcessQueueLock(t)
    \/ ProcessEnqueue(t)
    \/ ProcessReturn(t)
    \/ PendingLookup(t)
    \/ PendingLock(t)
    \/ PendingRead(t)
    \/ StateLock(t)
    \/ StateContent(t)
    \/ StateVersion(t)
    \/ StateLength(t)
    \/ StateLast(t)
    \/ StateUnlock(t)

NextCalls ==
    \E t \in Threads :
        \/ \E d \in DocIds, ic \in CallContents : BeginCreate(t, d, ic)
        \/ \E d \in DocIds, op \in ProcessOps(t) : BeginProcess(t, d, op)
        \/ \E d \in DocIds, since \in CallSince : BeginPending(t, d, since)
        \/ \E d \in DOMAIN sessions : BeginGetState(t, d)
        \/ Continue(t)

\* the scheduler runs every thread inside a call whose next step stays
\* possible. A thread at `with self.lock` gets no more than that:
\* threading.Lock does not say which thread gets a lock that is released, so
\* a thread can find the lock taken by another thread every time it runs
FairCalls == \A t \in Threads : WF_vars(Continue(t))

SpecCalls == InitProcess /\ [][NextCalls]_vars /\ FairCalls

----------------------------------------------------------------------------
(* Convergence specification: two operations made against the same content
   are applied in both orders, the second one transformed against the first;
   Init draws the content and the operations *)

ConvergeContents == {<<>>, <<"a">>, <<"a", "b">>, <<"a", "b", "c">>}

\* the operations made against content, each built by its agent at clock
\* reading 1 without timestamp and op_id: Inserts of "x" or "xy" and Deletes,
\* at positions inside, at the end of and beyond the content
ConvergeOps(content) ==
    {Operation(INSERT, p, Some(c), None, None, g, EmptyStr, EmptyStr, 1) :
        p \in 0 .. Len(content) + 1, c \in {<<"x">>, <<"x", "y">>},
        g \in AgentIds}
    \cup
    {Operation(DELETE, p, None, Some(l), None, <<97>>, EmptyStr, EmptyStr, 1) :
        p \in 0 .. Len(content) + 1, l \in {-2, -1, 0, 1, 2, 3}}

\* moved applied to the DocumentState that an apply_operation call, r1, has
\* left; when the transform_operation call raised instead of returning
\* moved, nothing is applied and the exception goes on to the caller
ThenApplied(r1, moved) ==
    IF Raised(moved) THEN moved
    ELSE LET r2 == apply_operation(r1.ds, moved)
         IN  [first |-> r1.ret, after_first |-> r1.ds.content, moved |-> moved,
              second |-> r2.ret, content |-> r2.ds.content,
              operations |-> r2.ds.operations]

\* first applied to a DocumentState holding content, then second transformed
\* against first by a call made at clock reading now, and the result
\* applied: what the two apply_operation calls return, the transformed
\* operation, the log and the content in the end
ApplyThenTransformed(content, first, second, now) ==
    LET ds == [DocumentState("d1") EXCEPT !.content = content]
    IN  ThenApplied(apply_operation(ds, first),
                    transform_operation(second, first, now))

InitConverge ==
    /\ sessions = EmptyDict
    /\ initial_content = EmptyDict
    /\ call = [fn |-> "none"]
    /\ operation_queue = <<>>
    /\ manager_lock = NoThread
    /\ held = <<>>
    /\ lock = Unlocked
    /\ \E content \in ConvergeContents :
          \E a \in ConvergeOps(content), b \in ConvergeOps(content) :
             /\ pc = [Idle EXCEPT !["t1"] = "a_then_b"]
             /\ frame = [NoFrames EXCEPT !["t1"] =
                            [content |-> content, a |-> a, b |-> b,
                             ab |-> None, ba |-> None]]

\* one site applies a, then b transformed against a
AThenB(t, now) ==
    /\ pc[t] = "a_then_b"
    /\ frame' = [frame EXCEPT ![t].ab =
                    Some(ApplyThenTransformed(frame[t].content,
                                              frame[t].a, frame[t].b, now))]
    /\ pc' = [pc EXCEPT ![t] = "b_then_a"]
    /\ UNCHANGED <<sessions, initial_content, call, lock,
                 operation_queue, manager_lock, held>>

\* the other site applies b, then a transformed against b
BThenA(t, now) ==
    /\ pc[t] = "b_then_a"
    /\ frame' = [frame EXCEPT ![t].ba =
                    Some(ApplyThenTransformed(frame[t].content,
                                              frame[t].b, frame[t].a, now))]
    /\ pc' = [pc EXCEPT ![t] = "idle"]
    /\ UNCHANGED <<sessions, initial_content, call, lock,
                 operation_queue, manager_lock, held>>

NextConverge ==
    \E t \in Threads, now \in Clock : AThenB(t, now) \/ BThenA(t, now)

SpecConverge == InitConverge /\ [][NextConverge]_vars

----------------------------------------------------------------------------
(* Agents specification: threads call add_agent, remove_agent and
   update_selection on one session, statement by statement; the session
   takes no lock *)

\* the dicts remove_agent goes through, in its order
RemoveOrder == <<"connected_agents", "cursor_positions", "selection_ranges">>

\* a session for every document exists, created with empty content
InitAgents ==
    /\ sessions = [d \in DocIds |-> create_session(EmptyDict, d, <<>>)[d]]
    /\ initial_content = [d \in DocIds |-> <<>>]
    /\ call = [fn |-> "none"]
    /\ operation_queue = <<>>
    /\ manager_lock = NoThread
    /\ held = <<>>
    /\ pc = Idle
    /\ lock = Unlocked
    /\ frame = NoFrames

\* thread t calls session.add_agent(a, info)
BeginAddAgent(t, d, a, info) ==
    /\ pc[t] = "idle"
    /\ pc' = [pc EXCEPT ![t] = "add_connected"]
    /\ frame' = [frame EXCEPT ![t] = [doc |-> d, agent |-> a, info |-> info]]
    /\ UNCHANGED <<sessions, initial_content, call, lock,
                 operation_queue, manager_lock, held>>

\* self.connected_agents[agent_id] = {**agent_info, 'joined_at': ...}
AddConnected(t, now) ==
    /\ pc[t] = "add_connected"
    /\ sessions' = [sessions EXCEPT ![frame[t].doc].connected_agents =
                       DictSet(@, frame[t].agent,
                               DictSet(frame[t].info, "joined_at",
                                       Isoformat(now)))]
    /\ pc' = [pc EXCEPT ![t] = "add_cursor"]
    /\ UNCHANGED <<initial_content, call, lock, frame,
                 operation_queue, manager_lock, held>>

\* self.cursor_positions[agent_id] = 0, and the return
AddCursor(t) ==
    /\ pc[t] = "add_cursor"
    /\ sessions' = [sessions EXCEPT ![frame[t].doc].cursor_positions =
                       DictSet(@, frame[t].agent, 0)]
    /\ call' = [fn |-> "add_agent", thread |-> t, doc |-> frame[t].doc,
                agent |-> frame[t].agent]
    /\ pc' = [pc EXCEPT ![t] = "idle"]
    /\ frame' = [frame EXCEPT ![t] = <<>>]
    /\ UNCHANGED <<initial_content, lock, operation_queue, manager_lock, held>>

\* thread t calls session.remove_agent(a)
BeginRemoveAgent(t, d, a) ==
    /\ pc[t] = "idle"
    /\ pc' = [pc EXCEPT ![t] = "remove_check"]
    /\ frame' = [frame EXCEPT ![t] = [doc |-> d, agent |-> a, at |-> 1]]
    /\ UNCHANGED <<sessions, initial_content, call, lock,
                 operation_queue, manager_lock, held>>

\* thread t goes on to the next dict of remove_agent, or returns
RemoveGoesOn(t) ==
    IF frame[t].at < Len(RemoveOrder)
    THEN /\ pc' = [pc EXCEPT ![t] = "remove_check"]
         /\ frame' = [frame EXCEPT ![t].at = @ + 1]
         /\ UNCHANGED call
    ELSE /\ pc' = [pc EXCEPT ![t] = "idle"]
         /\ frame' = [frame EXCEPT ![t] = <<>>]
         /\ call' = [fn |-> "remove_agent", thread |-> t, doc |-> frame[t].doc,
                     agent |-> frame[t].agent, raised |-> None]

\* if agent_id in self.<dict>:
RemoveCheck(t) ==
    /\ pc[t] = "remove_check"
    /\ IF frame[t].agent \in DOMAIN sessions[frame[t].doc][RemoveOrder[frame[t].at]]
       THEN /\ pc' = [pc EXCEPT ![t] = "remove_del"]
            /\ UNCHANGED <<frame, call>>
       ELSE RemoveGoesOn(t)
    /\ UNCHANGED <<sessions, initial_content, lock,
                 operation_queue, manager_lock, held>>

\* del self.<dict>[agent_id]: KeyError when the key is no longer there
RemoveDel(t) ==
    /\ pc[t] = "remove_del"
    /\ LET attr == RemoveOrder[frame[t].at]
       IN  IF frame[t].agent \in DOMAIN sessions[frame[t].doc][attr]
           THEN /\ sessions' = [sessions EXCEPT ![frame[t].doc][attr] =
                                   DictDel(@, frame[t].agent)]
                /\ RemoveGoesOn(t)
           ELSE /\ call' = [fn |-> "remove_agent", thread |-> t,
                            doc |-> frame[t].doc, agent |-> frame[t].agent,
                            raised |-> Some("KeyError")]
                /\ pc' = [pc EXCEPT ![t] = "idle"]
                /\ frame' = [frame EXCEPT ![t] = <<>>]
                /\ UNCHANGED sessions
    /\ UNCHANGED <<initial_content, lock, operation_queue, manager_lock, held>>

\* thread t calls session.update_selection(a, start, end): one assignment
ThreadUpdateSelection(t, d, a, range) ==
    /\ pc[t] = "idle"
    /\ UpdateSelection(d, a, range)

NextAgents ==
    \E t \in Threads :
        \/ \E d \in DocIds, a \in SessionAgents, info \in AgentInfos :
              BeginAddAgent(t, d, a, info)
        \/ \E now \in Clock : AddConnected(t, now)
        \/ AddCursor(t)
        \/ \E d \in DocIds, a \in SessionAgents : BeginRemoveAgent(t, d, a)
        \/ RemoveCheck(t)
        \/ RemoveDel(t)
        \/ \E d \in DocIds, a \in SessionAgents, range \in SelectionInputs :
              ThreadUpdateSelection(t, d, a, range)

SpecAgents == InitAgents /\ [][NextAgents]_vars

----------------------------------------------------------------------------
(* Claims about DocumentState, checked under Spec *)

\* the DocumentState of document d
Doc(d) == sessions[d].document_state

\* this step is a call apply_operation(call'.op) on the DocumentState of d
AppliesTo(d) ==
    /\ d \in DOMAIN sessions
    /\ call'.fn = "apply_operation"
    /\ call'.doc = d

\* this step returned true, bumped the version by one and logged call'.op last
AcceptedIn(d) ==
    /\ call'.ret = TRUE
    /\ Doc(d)'.version = Doc(d).version + 1
    /\ Doc(d)'.operations = Append(Doc(d).operations, call'.op)

\* this step left content, version and log of d as they were
UntouchedIn(d) ==
    /\ Doc(d)'.content = Doc(d).content
    /\ Doc(d)'.version = Doc(d).version
    /\ Doc(d)'.operations = Doc(d).operations

\* c[:p] + t + c[p:] for 0 <= p <= Len(c)
Spliced(c, p, t) == SubSeq(c, 1, p) \o t \o SubSeq(c, p + 1, Len(c))

\* c with the k characters after the first p removed
Cut(c, p, k) == SubSeq(c, 1, p) \o SubSeq(c, p + k + 1, Len(c))

\* an Insert whose content is supplied, at a position inside [0, len(content)]
InRangeInsert(d) ==
    /\ AppliesTo(d)
    /\ call'.op.op_type = INSERT
    /\ call'.op.content # None
    /\ 0 <= call'.op.position
    /\ call'.op.position <= Len(Doc(d).content)

\* the effect C1 states for an Insert
InsertEffect(d) ==
    /\ AcceptedIn(d)
    /\ Doc(d)'.content =
         Spliced(Doc(d).content, call'.op.position, Val(call'.op.content))

\* C1 as stated: every Insert with a text t and 0 <= p <= len(c), the empty
\* text included, returns true, splices t in at p, adds 1 to the version and
\* is logged last.
C1_InsertAnyText ==
    [][\A d \in DocIds : InRangeInsert(d) => InsertEffect(d)]_vars

\* C1 amended: every Insert with a non-empty text t and 0 <= p <= len(c)
\* returns true, makes the content c[:p] + t + c[p:], adds exactly 1 to the
\* version and is logged as the last entry.
C1_InsertSplices ==
    [][\A d \in DocIds :
          (InRangeInsert(d) /\ Len(Val(call'.op.content)) > 0) => InsertEffect(d)]_vars

\* a two-character text was inserted strictly inside a non-empty content
C1_Witness ==
    /\ call.fn = "apply_operation"
    /\ call.ret = TRUE
    /\ call.op.op_type = INSERT
    /\ Len(Val(call.op.content)) = 2
    /\ call.op.position > 0
    /\ Len(Doc(call.doc).content) > call.op.position + 2

\* a Delete whose length is supplied and at least lo, at 0 <= position < len(content)
InRangeDelete(d, lo) ==
    /\ AppliesTo(d)
    /\ call'.op.op_type = DELETE
    /\ call'.op.length # None
    /\ Val(call'.op.length) >= lo
    /\ 0 <= call'.op.position
    /\ call'.op.position < Len(Doc(d).content)

\* the effect C2 states for a Delete
DeleteEffect(d) ==
    LET c == Doc(d).content
        p == call'.op.position
        k == Min(Val(call'.op.length), Len(c) - p)
    IN  /\ AcceptedIn(d)
        /\ Doc(d)'.content = Cut(c, p, k)
        /\ Len(Doc(d)'.content) = Len(c) - k

\* C2 as stated: every Delete with a supplied (non-negative) length, length 0
\* included, at 0 <= position < len(content) returns true, removes
\* min(length, len - position) characters at position, adds 1 to the version
\* and is logged.
C2_DeleteAnyLength ==
    [][\A d \in DocIds : InRangeDelete(d, 0) => DeleteEffect(d)]_vars

\* C2 amended: every Delete with a supplied length >= 1 at
\* 0 <= position < len(content) returns true, removes exactly
\* min(length, len(content) - position) characters starting at position,
\* keeps every other character in place and in order, adds exactly 1 to the
\* version and is logged last; a span running past the end is clamped.
C2_DeleteClamps ==
    [][\A d \in DocIds : InRangeDelete(d, 1) => DeleteEffect(d)]_vars

\* a Delete whose span ran past the end was accepted and left a prefix
C2_Witness ==
    /\ call.fn = "apply_operation"
    /\ call.ret = TRUE
    /\ call.op.op_type = DELETE
    /\ call.op.position > 0
    /\ Val(call.op.length) = 2
    /\ Len(Doc(call.doc).content) = call.op.position

\* the calls C3 lists as failing
RejectedCase(d) ==
    LET op == call'.op
        n == Len(Doc(d).content)
    IN  \/ op.op_type = INSERT /\ (op.position < 0 \/ op.position > n)
        \/ op.op_type = INSERT /\ op.content = None
        \/ op.op_type = DELETE /\ (op.length = None \/ op.position >= n)
        \/ op.op_type = CURSOR

\* C3: an apply_operation that returns false leaves content, version and log
\* exactly as they were, and each listed case (Insert outside [0, len],
\* Insert without content, Delete without length or at position >= len,
\* CursorMove) does return false.
C3_RejectedLeavesState ==
    [][\A d \in DocIds :
          AppliesTo(d) =>
             /\ call'.ret = FALSE => UntouchedIn(d)
             /\ RejectedCase(d) => call'.ret = FALSE]_vars

\* a Delete beyond the end of a non-empty, already edited document returned false
C3_Witness ==
    /\ call.fn = "apply_operation"
    /\ call.ret = FALSE
    /\ call.op.op_type = DELETE
    /\ call.op.length = Some(1)
    /\ Doc(call.doc).content # <<>>
    /\ call.op.position > Len(Doc(call.doc).content)
    /\ Doc(call.doc).version > 0

\* C4: a Format operation always returns true, leaves the content unchanged,
\* adds exactly 1 to the version and is logged last, whatever its position
\* and attributes.
C4_FormatKeepsContent ==
    [][\A d \in DocIds :
          (AppliesTo(d) /\ call'.op.op_type = FORMAT) =>
             /\ AcceptedIn(d)
             /\ Doc(d)'.content = Doc(d).content]_vars

\* a Format without attributes at a position outside the content was accepted
C4_Witness ==
    /\ call.fn = "apply_operation"
    /\ call.ret = TRUE
    /\ call.op.op_type = FORMAT
    /\ call.op.attributes = None
    /\ call.op.position > Len(Doc(call.doc).content)
    /\ Doc(call.doc).content # <<>>

\* the content obtained by applying the entries of log in order to content start
RECURSIVE Replay(_, _, _)
Replay(document_id, start, log) ==
    IF log = <<>>
    THEN [DocumentState(document_id) EXCEPT !.content = start]
    ELSE apply_operation(
             Replay(document_id, start, SubSeq(log, 1, Len(log) - 1)),
             log[Len(log)]).ds

\* C5 as stated: in every reachable state, replaying the log from an empty
\* document gives the live content, also for a session created with content.
C5_ReplayFromEmpty ==
    \A d \in DOMAIN sessions :
        Replay(d, <<>>, Doc(d).operations).content = Doc(d).content

\* C5 amended: in every reachable state, replaying the log in order starting
\* from the content the session was created with gives the live content (and
\* so from the empty document when the session was created empty).
C5_ReplayFromInitial ==
    \A d \in DOMAIN sessions :
        Replay(d, initial_content[d], Doc(d).operations).content = Doc(d).content

\* a session created with content has two logged operations that changed it
C5_Witness ==
    \E d \in DOMAIN sessions :
        /\ initial_content[d] # <<>>
        /\ Len(Doc(d).operations) = 2
        /\ Doc(d).operations[1].op_type = INSERT
        /\ Doc(d).operations[2].op_type = DELETE
        /\ Doc(d).content # initial_content[d]

\* C6: version equals the number of log entries in every state; a step never
\* lowers it and changes it only by +1, exactly when an apply_operation on
\* that document returns true.
C6_VersionCountsLog ==
    /\ [](\A d \in DOMAIN sessions : Doc(d).version = Len(Doc(d).operations))
    /\ [][\A d \in DOMAIN sessions :
             /\ Doc(d)'.version # Doc(d).version =>
                   /\ Doc(d)'.version = Doc(d).version + 1
                   /\ AppliesTo(d)
                   /\ call'.ret = TRUE
             /\ (AppliesTo(d) /\ call'.ret = TRUE) =>
                   Doc(d)'.version = Doc(d).version + 1]_vars

\* after an accepted and a rejected operation the version is still the log's length
C6_Witness ==
    /\ call.fn = "apply_operation"
    /\ call.ret = FALSE
    /\ Doc(call.doc).version = 1
    /\ Len(Doc(call.doc).operations) = 1

----------------------------------------------------------------------------
(* Claims about transform_operation, checked under SpecTransform *)

\* a is lexicographically smaller than b: at the first index where they
\* differ a has the smaller code point, or a ends there and b does not
LexSmaller(a, b) ==
    \E i \in 1 .. Len(b) :
        /\ \A j \in 1 .. i - 1 : j <= Len(a) /\ a[j] = b[j]
        /\ (i > Len(a) \/ (i - 1 < Len(a) /\ a[i] < b[i]))

\* the last call transformed an operation of kind ka against one of kind kb
Transformed(ka, kb) ==
    /\ call.fn = "transform_operation"
    /\ call.op1.op_type = ka
    /\ call.op2.op_type = kb

\* C8: an Insert opA against an Insert opB keeps opA's position when
\* opA.position < opB.position, moves it right by len(opB.content) when
\* opA.position > opB.position, and at equal positions keeps it when opA's
\* agentId is lexicographically smaller and otherwise moves it right by
\* len(opB.content); content and agentId of the result are opA's.
C8_InsertAgainstInsert ==
    (Transformed(INSERT, INSERT) /\ call.op2.content # None) =>
        LET a == call.op1
            b == call.op2
            shifted == a.position + Len(Val(b.content))
        IN  /\ a.position < b.position => call.ret.position = a.position
            /\ a.position > b.position => call.ret.position = shifted
            /\ a.position = b.position =>
                  call.ret.position =
                     IF LexSmaller(a.agent_id, b.agent_id) THEN a.position ELSE shifted
            /\ call.ret.content = a.content
            /\ call.ret.agent_id = a.agent_id

\* two Inserts at one position by the same agent: the transformed one moved,
\* a new Operation with the time of the call (clock reading 2) and the op_id
\* of its position
C8_Witness ==
    /\ Transformed(INSERT, INSERT)
    /\ call.op1.position = call.op2.position
    /\ call.op1.agent_id = call.op2.agent_id
    /\ call.op2.content = Some(<<"a", "b">>)
    /\ call.ret.position = call.op1.position + 2
    /\ call.ret.timestamp = Isoformat(2)
    /\ call.ret.op_id = OpId(INSERT, call.ret.position, Isoformat(2),
                             call.op1.agent_id)
    /\ call.ret.op_id # call.op1.op_id

\* C9: a Delete opA against an Insert opB keeps opA's position when
\* opA.position < opB.position and otherwise moves it right by
\* len(opB.content); length and agentId of the result are opA's.
C9_DeleteAgainstInsert ==
    (Transformed(DELETE, INSERT) /\ call.op2.content # None) =>
        LET a == call.op1
            b == call.op2
        IN  /\ call.ret.position =
                  IF a.position < b.position THEN a.position
                  ELSE a.position + Len(Val(b.content))
            /\ call.ret.length = a.length
            /\ call.ret.agent_id = a.agent_id

\* Delete at 10 with length 3 against Insert "xy" at 5 gave a Delete at 12
\* with length 3, built at the time of the call
C9_Witness ==
    /\ call.fn = "transform_operation"
    /\ call.op1 = ExampleDelete
    /\ call.op2 = ExampleInsert
    /\ call.ret = Operation(DELETE, 12, None, Some(3), None, <<97>>, EmptyStr, EmptyStr, 2)

\* C10: an Insert opA against a Delete opB keeps opA's position when
\* opA.position <= opB.position, moves it left by opB.length when
\* opA.position > opB.position + opB.length, and otherwise (inside the
\* deleted span) becomes opB.position; content and agentId are opA's.
C10_InsertAgainstDelete ==
    (Transformed(INSERT, DELETE) /\ call.op2.length # None) =>
        LET a == call.op1
            b == call.op2
            n == Val(b.length)
        IN  /\ call.ret.position =
                  IF a.position <= b.position THEN a.position
                  ELSE IF a.position > b.position + n THEN a.position - n
                  ELSE b.position
            /\ call.ret.content = a.content
            /\ call.ret.agent_id = a.agent_id

\* an Insert strictly inside the deleted span landed where the deletion
\* began, as a new Operation with the time of the call
C10_Witness ==
    /\ Transformed(INSERT, DELETE)
    /\ call.op2.length = Some(2)
    /\ call.op1.position = call.op2.position + 1
    /\ call.ret.position = call.op2.position
    /\ call.ret.timestamp = Isoformat(2)
    /\ call.ret.op_id # call.op1.op_id

----------------------------------------------------------------------------
(* Claims about concurrent calls, checked under SpecThreads *)

\* C7: under any interleaving of apply_operation and get_state calls the
\* applies take effect atomically in one total order: whenever nobody is
\* inside `with self.lock`, content is the result of applying the logged
\* operations in log order to the initial content and version is the log's
\* length; and the snapshot get_state has assembled has version = number of
\* logged operations, length = len(content), the live content, and
\* last_operation = the last log entry (None for an empty log).
C7_AtomicAppliesAndSnapshots ==
    /\ \A d \in DocIds :
          lock[d] = NoThread =>
             /\ Doc(d).content =
                   Replay(d, initial_content[d], Doc(d).operations).content
             /\ Doc(d).version = Len(Doc(d).operations)
    /\ \A t \in Threads :
          pc[t] = "state_unlock" =>
             LET snap == frame[t].snap
                 log == Doc(frame[t].doc).operations
             IN  /\ snap.version = Len(log)
                 /\ snap.length = Len(snap.content)
                 /\ snap.content = Doc(frame[t].doc).content
                 /\ snap.last_operation =
                       IF Len(log) = 0 THEN None ELSE Some(log[Len(log)])

\* a snapshot of a twice edited document is complete while the other thread
\* waits for the lock with an operation to apply
C7_Witness ==
    \E t \in Threads, u \in Threads :
        /\ pc[t] = "state_unlock"
        /\ pc[u] = "apply_lock"
        /\ frame[t].doc = frame[u].doc
        /\ frame[t].snap.version = 2
        /\ frame[t].snap.last_operation # None
        /\ Val(frame[t].snap.last_operation).agent_id = <<98>>
        /\ Doc(frame[t].doc).operations[1].agent_id = <<97>>

----------------------------------------------------------------------------
(* Further claims about transform_operation, checked under SpecTransform *)

\* thread t has transformed its two operations against each other, both are
\* Inserts with content at one position, and their agent ids differ
TiedInserts(t) ==
    /\ frame[t] # <<>>
    /\ frame[t].ab # None
    /\ frame[t].ba # None
    /\ frame[t].op1.op_type = INSERT
    /\ frame[t].op2.op_type = INSERT
    /\ frame[t].op1.content # None
    /\ frame[t].op2.content # None
    /\ frame[t].op1.position = frame[t].op2.position
    /\ frame[t].op1.agent_id # frame[t].op2.agent_id

\* C11: for two Inserts A and B at one position with different agentIds, of
\* transform(A, B) and transform(B, A) the one of the lexicographically
\* larger agentId is moved right by the length of the other's content and
\* the other keeps its position, whichever call is made first.
C11_TieBreakConsistent ==
    \A t \in Threads :
        TiedInserts(t) =>
            LET A == frame[t].op1
                B == frame[t].op2
                AB == Val(frame[t].ab)
                BA == Val(frame[t].ba)
            IN  IF LexSmaller(A.agent_id, B.agent_id)
                THEN /\ AB.position = A.position
                     /\ BA.position = B.position + Len(Val(A.content))
                ELSE /\ LexSmaller(B.agent_id, A.agent_id)
                     /\ BA.position = B.position
                     /\ AB.position = A.position + Len(Val(B.content))

\* both orders were computed for Inserts of agents "ab" and "b" at one
\* position: only the Insert of "b" moved, by the two characters of the other
C11_Witness ==
    \E t \in Threads :
        /\ TiedInserts(t)
        /\ frame[t].op1.agent_id = <<98>>
        /\ frame[t].op2.agent_id = <<97, 98>>
        /\ frame[t].op2.content = Some(<<"a", "b">>)
        /\ frame[t].op1.content = Some(<<"a">>)
        /\ Val(frame[t].ab).position = frame[t].op1.position + 2
        /\ Val(frame[t].ab).timestamp = Isoformat(2)
        /\ Val(frame[t].ba) = frame[t].op2

\* the cases in which opA is unaffected by opB: the Insert/Insert,
\* Delete/Insert and Insert/Delete rules leave it alone, or no rule applies
Unaffected(a, b) ==
    IF a.op_type = INSERT /\ b.op_type = INSERT
    THEN \/ a.position < b.position
         \/ a.position = b.position /\ LexSmaller(a.agent_id, b.agent_id)
    ELSE IF a.op_type = DELETE /\ b.op_type = INSERT THEN a.position < b.position
    ELSE IF a.op_type = INSERT /\ b.op_type = DELETE THEN a.position <= b.position
    ELSE TRUE

\* a transform_operation call of thread t left the two operations it holds as they were
InputsKept(t) ==
    /\ frame'[t].op1 = frame[t].op1
    /\ frame'[t].op2 = frame[t].op2

\* C12 as stated: transform_operation never mutates opA or opB and what it
\* returns is never the opA object it was given.
C12_AlwaysNewOperation ==
    [][\A t \in Threads :
          pc[t] \in {"transform", "transform_back"} =>
             InputsKept(t) /\ call'.returned_op1 = FALSE]_vars

\* the timestamps the clock gives
ClockTimes == {Isoformat(now) : now \in Clock}

\* r is an Operation constructed during the call from a: it has a's kind and
\* agent_id, of content and length the one a's kind uses and the other at its
\* default, no attributes, the time of a clock reading as timestamp and the
\* op_id generated from its own fields
ConstructedFrom(r, a) ==
    /\ r.op_type = a.op_type
    /\ r.agent_id = a.agent_id
    /\ r.content = (IF a.op_type = INSERT THEN a.content ELSE None)
    /\ r.length = (IF a.op_type = DELETE THEN a.length ELSE None)
    /\ r.attributes = None
    /\ r.timestamp \in ClockTimes
    /\ r.op_id = OpId(r.op_type, r.position, r.timestamp, r.agent_id)

\* C12 amended: transform_operation never mutates opA or opB; it returns a
\* newly constructed Operation (with the timestamp and op_id of its own
\* construction) exactly when a rule moves opA (also when the move is by 0),
\* and returns the opA object itself, unchanged, when opA is unaffected or
\* no rule applies to the pairing.
C12_NewOperationOnlyWhenMoved ==
    [][\A t \in Threads :
          pc[t] \in {"transform", "transform_back"} =>
             /\ InputsKept(t)
             /\ call'.returned_op1 <=> Unaffected(call'.op1, call'.op2)
             /\ call'.returned_op1 => call'.ret = call'.op1
             /\ ~call'.returned_op1 => ConstructedFrom(call'.ret, call'.op1)]_vars

\* a Delete in front of an Insert came back as the object that was passed in
C12_Witness ==
    /\ Transformed(DELETE, INSERT)
    /\ call.op1.position < call.op2.position
    /\ call.returned_op1 = TRUE
    /\ call.ret = call.op1

----------------------------------------------------------------------------
(* A further claim about apply_operation, checked under Spec *)

\* this step applies a Delete with a supplied length of at least lo to d
DeleteWithLength(d, lo) ==
    /\ AppliesTo(d)
    /\ call'.op.op_type = DELETE
    /\ call'.op.length # None
    /\ Val(call'.op.length) >= lo

\* the position of the Delete applied in this step is inside the content of d
PositionInside(d) ==
    0 <= call'.op.position /\ call'.op.position < Len(Doc(d).content)

\* C19 as stated: a Delete with a supplied non-negative length, 0 included,
\* returns true if and only if 0 <= position < len(content).
C19_DeleteAcceptedIffInside ==
    [][\A d \in DocIds :
          DeleteWithLength(d, 0) => (call'.ret = TRUE <=> PositionInside(d))]_vars

\* C19 amended: a Delete with a supplied length >= 1 returns true if and only
\* if 0 <= position < len(content); a Delete with length 0 returns false at
\* every position.
C19_PositiveDeleteAcceptedIffInside ==
    [][\A d \in DocIds :
          /\ DeleteWithLength(d, 1) => (call'.ret = TRUE <=> PositionInside(d))
          /\ (DeleteWithLength(d, 0) /\ Val(call'.op.length) = 0) =>
                call'.ret = FALSE]_vars

\* a Delete of one character at position = len(content) of a non-empty
\* document was refused
C19_Witness ==
    /\ call.fn = "apply_operation"
    /\ call.op.op_type = DELETE
    /\ call.op.length = Some(1)
    /\ call.op.position = Len(Doc(call.doc).content)
    /\ call.op.position > 0
    /\ call.ret = FALSE

----------------------------------------------------------------------------
(* Claims about the CollaborationManager, checked under SpecManager *)

\* C17: for every since_version >= 0, get_pending_operations returns the
\* log entries with index >= since_version in log order, the same as
\* operations[since_version:], also when equal operations occur in the log
\* more than once; for a document id without a session it returns [].
C17_PendingIsLogSuffix ==
    [][(call'.fn = "get_pending_operations" /\ call'.since >= 0) =>
          call'.ret = IF call'.doc \in DOMAIN sessions
                      THEN SliceFrom(sessions[call'.doc].document_state.operations,
                                     call'.since)
                      ELSE <<>>]_vars

----------------------------------------------------------------------------
(* Claims about sessions, checked under SpecSession *)

\* C16: once a session exists for a document id, a later create_session for
\* that id, with any initial content, returns that session (the entry of the
\* sessions map, which the call leaves as it was) and changes neither its
\* content, version or log nor its agents, cursors or selections; no second
\* session is made for the id.
C16_CreateSessionIdempotent ==
    [][\A d \in DocIds :
          (call'.fn = "create_session" /\ call'.doc = d /\ d \in DOMAIN sessions)
             => sessions' = sessions]_vars

\* the last call was create_session with a content other than the
\* document's, on a session that has an operation logged, an agent connected
\* and a cursor moved
C16_Witness ==
    /\ call.fn = "create_session"
    /\ call.doc \in DOMAIN sessions
    /\ LET s == sessions[call.doc]
       IN  /\ s.document_state.version > 0
           /\ s.document_state.content # call.content
           /\ DOMAIN s.connected_agents # {}
           /\ \E a \in DOMAIN s.cursor_positions : s.cursor_positions[a] = 5

\* C18: the cursor_positions and selection_ranges inside a result of
\* get_session_info are copies: whatever is called on the session later,
\* they still hold what they held when the result was returned.
C18_InfoHoldsCopies ==
    \A i \in 1 .. Len(held) :
       /\ Deref(sessions, held[i].info.cursor_positions) = held[i].cursor_positions
       /\ Deref(sessions, held[i].info.selection_ranges) = held[i].selection_ranges

----------------------------------------------------------------------------
(* Claims about concurrent process_operation calls, checked under SpecProcess *)

\* C15: every successful process_operation reported as new_version the
\* 1-based index of its own operation in the document's log, and two
\* different successful calls never reported the same new_version for one
\* document.
C15_ReportsOwnVersion ==
    \A i \in 1 .. Len(held) :
       LET r == held[i]
           log == sessions[r.doc].document_state.operations
       IN  /\ r.ret.new_version \in 1 .. Len(log)
           /\ log[r.ret.new_version] = r.op
           /\ \A j \in 1 .. Len(held) :
                 (j # i /\ held[j].doc = r.doc) =>
                    held[j].ret.new_version # r.ret.new_version

\* C20: every (document id, operation) pair in operation_queue is in the
\* operations log of that document.
C20_QueuedWasApplied ==
    \A i \in 1 .. Len(operation_queue) :
       LET d == operation_queue[i][1]
           op == operation_queue[i][2]
       IN  /\ d \in DOMAIN sessions
           /\ \E k \in 1 .. Len(sessions[d].document_state.operations) :
                 sessions[d].document_state.operations[k] = op

\* one thread's operation is queued while the other thread has applied its
\* own to the same document and not queued it yet
C20_Witness ==
    /\ Len(operation_queue) > 0
    /\ \E t \in Threads :
          /\ pc[t] = "process_queue_lock"
          /\ frame[t].doc = operation_queue[1][1]
          /\ frame[t].op # operation_queue[1][2]

----------------------------------------------------------------------------
(* Claims about concurrent calls, checked under SpecCalls *)

\* the number of entries of sequence q that equal x
Count(q, x) == Cardinality({i \in 1 .. Len(q) : q[i] = x})

\* operation op is more often in the log of d than (d, op) is in the queue
Unqueued(d, op) ==
    /\ d \in DOMAIN sessions
    /\ Count(sessions[d].document_state.operations, op)
          > Count(operation_queue, <<d, op>>)

\* the operations any thread submits
AllProcessOps == UNION {ProcessOps(t) : t \in Threads}

\* C21 as stated: apply and enqueue are separate steps; an operation that is
\* in the log of its document and not yet in operation_queue is eventually
\* in operation_queue.
C21_AppliedEventuallyQueued ==
    \A d \in DocIds, op \in AllProcessOps :
        Unqueued(d, op) ~> ~Unqueued(d, op)

\* a process_operation call for (d, op) is between its apply and its append:
\* thread t is at `with self.lock` of the manager or inside it
AboutToEnqueue(t, d, op) ==
    /\ pc[t] \in {"process_queue_lock", "process_enqueue"}
    /\ frame[t].doc = d
    /\ frame[t].op = op

\* every thread that waits for a lock gets it, if the lock is free again and
\* again: what a fair lock gives and threading.Lock does not promise
LocksGranted == \A t \in Threads : SF_vars(Continue(t))

\* C21 amended: apply and enqueue are separate steps; an operation that is in
\* the log and not yet in operation_queue belongs to a call that is about to
\* take the manager's lock or holds it; it is in operation_queue eventually
\* unless that call finds the manager's lock taken by another thread again
\* and again, and always if every waiting thread is granted the lock.
C21_QueuedOnceLockGranted ==
    /\ [](\A d \in DocIds, op \in AllProcessOps :
             Unqueued(d, op) => \E t \in Threads : AboutToEnqueue(t, d, op))
    /\ \A d \in DocIds, op \in AllProcessOps :
          Unqueued(d, op) ~>
             (\/ ~Unqueued(d, op)
              \/ \E t \in Threads :
                    /\ AboutToEnqueue(t, d, op)
                    /\ pc[t] = "process_queue_lock"
                    /\ manager_lock # NoThread)
    /\ LocksGranted =>
          \A d \in DocIds, op \in AllProcessOps :
             Unqueued(d, op) ~> ~Unqueued(d, op)

\* thread t has applied its operation (the version is raised, the operation
\* is the last of the log) and has not queued it, while the other thread is
\* reading the document under its lock
C21_Witness ==
    \E t \in Threads, u \in Threads :
        /\ pc[t] = "process_queue_lock"
        /\ Unqueued(frame[t].doc, frame[t].op)
        /\ sessions[frame[t].doc].document_state.version > 0
        /\ operation_queue = <<>>
        /\ pc[u] = "pending_read"
        /\ frame[u].doc = frame[t].doc

----------------------------------------------------------------------------
(* Further claims about concurrent process_operation calls, checked under
   SpecProcess *)

\* thread t is inside process_operation
Processing(t) == pc[t] \in ProcessPcs

\* this step is a step of thread t inside process_operation
ProcessStep(t) == Processing(t) /\ pc'[t] # pc[t]

\* a process_operation step for one document leaves every other session as
\* it was
OtherDocumentsKept ==
    \A t \in Threads :
        ProcessStep(t) =>
            /\ DOMAIN sessions' = DOMAIN sessions
            /\ \A e \in DOMAIN sessions \ {frame[t].doc} :
                  sessions'[e] = sessions[e]

\* thread t cannot enter the DocumentState lock it needs
WaitsForDocumentLock(t) ==
    pc[t] = "process_apply_lock" /\ ~LockFree(lock, frame[t].doc)

\* thread t cannot enter the manager's lock it needs
WaitsForManagerLock(t) ==
    pc[t] = "process_queue_lock" /\ manager_lock # NoThread

\* a thread that waits for a DocumentState lock waits for a thread that
\* works on the same document
DocumentLockWaitsSameDocument ==
    \A t \in Threads :
        WaitsForDocumentLock(t) =>
            /\ lock[frame[t].doc] \in Threads
            /\ frame[lock[frame[t].doc]].doc = frame[t].doc

\* a thread that waits for the manager's lock waits for a thread that works
\* on the same document
ManagerLockWaitsSameDocument ==
    \A t \in Threads :
        WaitsForManagerLock(t) => frame[manager_lock].doc = frame[t].doc

\* C22 as stated: a process_operation on one document changes nothing in
\* another document, and a thread processing an operation for one document
\* never waits for a lock held by a thread processing an operation for
\* another document.
C22_NeverContend ==
    /\ [][OtherDocumentsKept]_vars
    /\ [](DocumentLockWaitsSameDocument /\ ManagerLockWaitsSameDocument)

\* C22 amended: a process_operation on one document changes nothing in
\* another document, and a thread never waits for a DocumentState lock held
\* by a thread that works on another document; for the manager's lock,
\* taken to append to operation_queue, threads of different documents do
\* wait for each other.
C22_IndependentDocuments ==
    /\ [][OtherDocumentsKept]_vars
    /\ []DocumentLockWaitsSameDocument

\* two threads are applying operations to two different documents at once,
\* each inside the lock of its own document
C22_Witness ==
    \E t \in Threads, u \in Threads :
        /\ pc[t] = "process_apply"
        /\ pc[u] = "process_apply"
        /\ frame[t].doc # frame[u].doc
        /\ lock[frame[t].doc] = t
        /\ lock[frame[u].doc] = u

----------------------------------------------------------------------------
(* A further claim about concurrent calls, checked under SpecCalls *)

\* no thread holds the manager's lock and a DocumentState lock together
NoThreadHoldsBoth ==
    \A t \in Threads :
        ~(manager_lock = t /\ \E d \in DOMAIN lock : lock[d] = t)

\* a lock is held only by a thread that is inside a call
LocksHeldInsideCalls ==
    /\ manager_lock # NoThread => pc[manager_lock] # "idle"
    /\ \A d \in DOMAIN lock : lock[d] # NoThread => pc[lock[d]] # "idle"

\* whenever some thread is inside a call, some thread inside a call can
\* take its next step
NoDeadlock ==
    (\E t \in Threads : pc[t] # "idle") =>
        \E u \in Threads : pc[u] # "idle" /\ ENABLED Continue(u)

\* C23 as stated: no thread ever holds the manager's lock and a
\* DocumentState lock at the same time, no state is a deadlock, and every
\* call that has begun returns.
C23_NoDeadlockAndCallsReturn ==
    /\ [](NoThreadHoldsBoth /\ LocksHeldInsideCalls /\ NoDeadlock)
    /\ \A t \in Threads : (pc[t] # "idle") ~> (pc[t] = "idle")

\* thread t is at a `with ...lock` whose lock is taken
Blocked(t) ==
    \/ pc[t] \in {"create_lock", "process_queue_lock"} /\ manager_lock # NoThread
    \/ /\ pc[t] \in {"process_apply_lock", "pending_lock", "state_lock"}
       /\ lock[frame[t].doc] # NoThread

\* a thread inside a call can take its next step unless it is at a
\* `with ...lock` whose lock is taken; a thread that holds a lock is at no
\* `with ...lock`, so it can go on and release the lock
OnlyLocksBlock ==
    \A t \in Threads :
        /\ (pc[t] # "idle" /\ ~Blocked(t)) => ENABLED Continue(t)
        /\ (manager_lock = t \/ \E d \in DOMAIN lock : lock[d] = t) => ~Blocked(t)

\* C23 amended: no thread ever holds the manager's lock and a DocumentState
\* lock at the same time and no state is a deadlock; a thread that holds a
\* lock waits for no lock; a call that has begun returns unless it finds the
\* lock it needs taken by another thread again and again, and every call
\* returns if every waiting thread is granted the lock.
C23_NoDeadlockAndCallsReturnOrWait ==
    /\ [](NoThreadHoldsBoth /\ LocksHeldInsideCalls /\ NoDeadlock
             /\ OnlyLocksBlock)
    /\ \A t \in Threads : (pc[t] # "idle") ~> (pc[t] = "idle" \/ Blocked(t))
    /\ LocksGranted => \A t \in Threads : (pc[t] # "idle") ~> (pc[t] = "idle")

\* one thread holds the manager's lock while the other holds the lock of the
\* document
C23_Witness ==
    \E t \in Threads, u \in Threads :
        /\ manager_lock = t
        /\ \E d \in DOMAIN lock : lock[d] = u
        /\ t # u

----------------------------------------------------------------------------
(* Claims about convergence, checked under SpecConverge *)

\* both orders have been run for operations a of kind ka and b of kind kb
\* that each apply to the content
BothOrders(t, ka, kb) ==
    /\ frame[t] # <<>>
    /\ frame[t].ab # None
    /\ frame[t].ba # None
    /\ frame[t].a.op_type = ka
    /\ frame[t].b.op_type = kb
    /\ Val(frame[t].ab).first
    /\ Val(frame[t].ba).first

\* C24: two Inserts by different agents that each apply to a content
\* converge: a then transform(b, a) gives the same content as b then
\* transform(a, b).
C24_InsertsConverge ==
    \A t \in Threads :
        (BothOrders(t, INSERT, INSERT) /\ frame[t].a.agent_id # frame[t].b.agent_id)
            => Val(frame[t].ab).content = Val(frame[t].ba).content

\* "x" by agent "ab" and "xy" by agent "a" were inserted at the same
\* position 1 of "ab", and both orders ended with "axyxb"
C24_Witness ==
    /\ BothOrders("t1", INSERT, INSERT)
    /\ frame["t1"].content = <<"a", "b">>
    /\ frame["t1"].a.position = 1
    /\ frame["t1"].b.position = 1
    /\ frame["t1"].a.agent_id = <<97, 98>>
    /\ frame["t1"].b.agent_id = <<97>>
    /\ frame["t1"].a.content = Some(<<"x">>)
    /\ frame["t1"].b.content = Some(<<"x", "y">>)
    /\ Val(frame["t1"].ab).content = <<"a", "x", "y", "x", "b">>
    /\ Val(frame["t1"].ba).content = <<"a", "x", "y", "x", "b">>
    /\ Val(frame["t1"].ba).operations =
          <<frame["t1"].b,
            Operation(INSERT, 3, Some(<<"x">>), None, None, <<97, 98>>, EmptyStr, EmptyStr, 2)>>

\* C25: an Insert a and a Delete b (of a positive length) that each apply to
\* a content converge: b then transform(a, b) gives the same content as a
\* then transform(b, a), also when a's position is strictly inside the span
\* b deletes.
C25_InsertDeleteConverge ==
    \A t \in Threads :
        (BothOrders(t, INSERT, DELETE) /\ Val(frame[t].b.length) > 0)
            => Val(frame[t].ba).content = Val(frame[t].ab).content

\* a transformed against b applies after b: both orders have been run for a
\* of kind ka and b of kind kb that each apply to the content, and b's length,
\* if b has one, is at least lo
TransformedCase(t, ka, kb, lo) ==
    /\ BothOrders(t, ka, kb)
    /\ kb = DELETE => Val(frame[t].b.length) >= lo

\* transform(a, b) has a non-negative position and was applied with success
\* to the content that b had been applied to
TransformedApplied(t) ==
    /\ Val(frame[t].ba).moved.position >= 0
    /\ Val(frame[t].ba).second

\* the pairings of kinds transform_operation has a rule for
Pairings == {<<INSERT, INSERT>>, <<DELETE, INSERT>>, <<INSERT, DELETE>>}

\* C26: for operations a and b that each apply to a content, in one of the
\* pairings Insert/Insert, Delete/Insert, Insert/Delete, transform(a, b) has
\* a non-negative position and applies to the content obtained by applying b.
\* apply_operation takes a Delete of a negative length for one that applies.
C26_TransformedApplies ==
    \A t \in Threads : \A k \in Pairings :
        TransformedCase(t, k[1], k[2], -2) => TransformedApplied(t)

\* the same for the Deletes the data model has, those of a length that is
\* not negative (of these the ones of length at least 1 apply)
TransformedAppliesInDomain ==
    \A t \in Threads : \A k \in Pairings :
        TransformedCase(t, k[1], k[2], 0) => TransformedApplied(t)

\* an Insert at 2 of "ab" and a Delete at 1 of length -2 each applied; the
\* Delete left "ab" as it was and the Insert, transformed against it, was
\* moved to 4 and refused
C26_Witness ==
    /\ BothOrders("t1", INSERT, DELETE)
    /\ frame["t1"].content = <<"a", "b">>
    /\ frame["t1"].a.position = 2
    /\ frame["t1"].b.position = 1
    /\ frame["t1"].b.length = Some(-2)
    /\ Val(frame["t1"].ba).after_first = <<"a", "b">>
    /\ Val(frame["t1"].ba).moved.position = 4
    /\ ~Val(frame["t1"].ba).second

----------------------------------------------------------------------------
(* A claim about the order of operation_queue, checked under SpecProcess *)

RECURSIVE QueuedFor(_, _)
\* the operations queued for document d, in the order of the queue
QueuedFor(queue, d) ==
    IF queue = <<>> THEN <<>>
    ELSE IF Head(queue)[1] = d
         THEN <<Head(queue)[2]>> \o QueuedFor(Tail(queue), d)
         ELSE QueuedFor(Tail(queue), d)

RECURSIVE InOrderOf(_, _)
\* the entries of q occur in log in the order they have in q
InOrderOf(q, log) ==
    IF q = <<>> THEN TRUE
    ELSE IF log = <<>> THEN FALSE
    ELSE IF Head(q) = Head(log) THEN InOrderOf(Tail(q), Tail(log))
    ELSE InOrderOf(q, Tail(log))

\* C27: the operations of one document are in operation_queue in the same
\* relative order as in the operations log of the document.
C27_QueueOrderIsLogOrder ==
    \A d \in DOMAIN sessions :
        InOrderOf(QueuedFor(operation_queue, d),
                  sessions[d].document_state.operations)

----------------------------------------------------------------------------
(* Further claims about sessions, checked under SpecSession *)

\* this step is a call of session method fn for an agent on the session of d
SessionCall(d, fn) ==
    /\ d \in DOMAIN sessions
    /\ call'.fn = fn
    /\ call'.doc = d

\* dict d without key k, as a comparison of two dicts
Without(after, before, k) ==
    /\ DOMAIN after = DOMAIN before \ {k}
    /\ \A x \in DOMAIN after : after[x] = before[x]

\* remove_agent takes the agent out of the three dicts, keeps every other
\* entry, and changes nothing when the agent is in none of them
RemoveAgentRemoves ==
    \A d \in DocIds :
        SessionCall(d, "remove_agent") =>
            LET a == call'.agent
                s == sessions[d]
                n == sessions'[d]
            IN  /\ Without(n.connected_agents, s.connected_agents, a)
                /\ Without(n.cursor_positions, s.cursor_positions, a)
                /\ Without(n.selection_ranges, s.selection_ranges, a)
                /\ n.document_state = s.document_state
                /\ (/\ a \notin DOMAIN s.connected_agents
                    /\ a \notin DOMAIN s.cursor_positions
                    /\ a \notin DOMAIN s.selection_ranges) => sessions' = sessions

\* cursor_positions and selection_ranges of session s have entries only for
\* connected agents
OnlyConnected(s) ==
    /\ DOMAIN s.cursor_positions \subseteq DOMAIN s.connected_agents
    /\ DOMAIN s.selection_ranges \subseteq DOMAIN s.connected_agents

\* C28 as stated: remove_agent removes the agent from the three dicts and is
\* a no-op for an absent agent, and after any sequence of add_agent,
\* remove_agent, update_cursor and update_selection calls cursor_positions
\* and selection_ranges have entries only for connected agents.
C28_OnlyConnectedAgentsKept ==
    /\ [][RemoveAgentRemoves]_vars
    /\ [](\A d \in DOMAIN sessions : OnlyConnected(sessions[d]))

\* C28 amended: remove_agent removes the agent from the three dicts and is a
\* no-op for an absent agent; add_agent, remove_agent, and update_cursor and
\* update_selection called for a connected agent, keep cursor_positions and
\* selection_ranges within the connected agents.
C28_RemoveAgentRemovesAll ==
    /\ [][RemoveAgentRemoves]_vars
    /\ [][\A d \in DocIds :
             (/\ d \in DOMAIN sessions
              /\ OnlyConnected(sessions[d])
              /\ \/ call'.fn \in {"add_agent", "remove_agent"}
                 \/ /\ call'.fn \in {"update_cursor", "update_selection"}
                    /\ call'.agent \in DOMAIN sessions[d].connected_agents)
                => OnlyConnected(sessions'[d])]_vars

\* agent "a", who had moved its cursor and selected a range, was removed
\* and is in none of the dicts, while agent "b" is still connected
C28_Witness ==
    /\ call.fn = "remove_agent"
    /\ call.agent = <<97>>
    /\ held # <<>>
    /\ <<97>> \in DOMAIN held[1].selection_ranges
    /\ <<97>> \in DOMAIN held[1].cursor_positions
    /\ held[1].cursor_positions[<<97>>] = 5
    /\ LET s == sessions[call.doc]
       IN  /\ <<97>> \notin DOMAIN s.connected_agents
           /\ <<97>> \notin DOMAIN s.cursor_positions
           /\ <<97>> \notin DOMAIN s.selection_ranges
           /\ <<98>> \in DOMAIN s.connected_agents
           /\ <<98>> \in DOMAIN s.cursor_positions

----------------------------------------------------------------------------
(* A claim about concurrent add_agent and remove_agent calls, checked under
   SpecAgents *)

\* no thread is inside a call
Quiescent == \A t \in Threads : pc[t] = "idle"

\* C29: in every quiescent state every agent in connected_agents has a
\* cursor_positions entry, and the agent_count of get_session_info is the
\* number of connected agent ids.
C29_ConnectedAgentsHaveCursor ==
    Quiescent =>
        \A d \in DOMAIN sessions :
            /\ DOMAIN sessions[d].connected_agents
                  \subseteq DOMAIN sessions[d].cursor_positions
            /\ get_session_info(sessions[d]).agent_count =
                  Cardinality(DOMAIN sessions[d].connected_agents)

----------------------------------------------------------------------------
(* A claim about the life of a session, checked under SpecSession *)

\* a session, once in the sessions map, stays in it and is never made anew
SessionStays(d) ==
    d \in DOMAIN sessions =>
        /\ d \in DOMAIN sessions'
        /\ sessions'[d].document_id = sessions[d].document_id
        /\ initial_content'[d] = initial_content[d]

\* only create_session puts a session into the sessions map
OnlyCreateSessionCreates(d) ==
    (d \notin DOMAIN sessions /\ d \in DOMAIN sessions') =>
        call'.fn = "create_session" /\ call'.doc = d

\* get_session finds the session of d exactly when one has been created
GetSessionFinds(d) ==
    (call'.fn = "get_session" /\ call'.doc = d) =>
        call'.ret = IF d \in DOMAIN initial_content THEN Some(d) ELSE None

\* C30: before create_session get_session returns absent; once
\* create_session has created the session of a document, get_session
\* returns that session in every later state and no operation of the manager
\* or of the session removes it, also not the removal of its last agent.
C30_SessionStaysActive ==
    [][\A d \in DocIds :
          SessionStays(d) /\ OnlyCreateSessionCreates(d) /\ GetSessionFinds(d)]_vars

\* get_session found the session after its only agent had been removed
C30_Witness ==
    /\ call.fn = "get_session"
    /\ call.ret = Some(call.doc)
    /\ held # <<>>
    /\ held[1].info.agent_count = 1
    /\ DOMAIN sessions[call.doc].connected_agents = {}
    /\ DOMAIN sessions[call.doc].cursor_positions = {}

----------------------------------------------------------------------------
(* Claims about each process_operation call among the calls of other
   threads, checked under SpecProcess *)

\* the step of thread t at process_apply appended its operation to the log
\* of its document and raised the version by one
AppliedIn(t) ==
    LET d == frame[t].doc
    IN  /\ sessions'[d].document_state.operations =
              Append(sessions[d].document_state.operations, frame[t].op)
        /\ sessions'[d].document_state.version =
              sessions[d].document_state.version + 1

\* what the steps of one call do: the apply step either logs the operation
\* and goes on to the queue, or changes nothing and goes on to the return;
\* the enqueue step, and no other, appends the pair of the call once; the
\* return step reports success with the id of the operation when the apply
\* step logged it, and the failure otherwise
CallEnqueuesIffApplied(t) ==
    LET d == frame[t].doc
        op == frame[t].op
    IN  /\ pc[t] = "process_apply" =>
              IF AppliedIn(t)
              THEN frame'[t].success = TRUE /\ pc'[t] = "process_queue_lock"
              ELSE /\ sessions' = sessions
                   /\ frame'[t].success = FALSE /\ pc'[t] = "process_return"
        /\ pc[t] = "process_queue_lock" => pc'[t] = "process_enqueue"
        /\ pc[t] = "process_enqueue" => pc'[t] = "process_return"
        /\ operation_queue' = IF pc[t] = "process_enqueue"
                              THEN Append(operation_queue, <<d, op>>)
                              ELSE operation_queue
        /\ pc[t] = "process_return" =>
              /\ sessions' = sessions
              /\ call'.fn = "process_operation" /\ call'.thread = t
              /\ call'.doc = d /\ call'.op = op
              /\ IF frame[t].success
                 THEN /\ call'.ret.success = TRUE
                      /\ call'.ret.operation_id = op.op_id
                 ELSE call'.ret = ApplyFailed

\* C13: process_operation on an existing session appends exactly one
\* (document id, operation) pair to operation_queue and reports success with
\* the operation's id if and only if apply_operation succeeded; when apply
\* fails it reports the failure and leaves operation_queue and the content,
\* version and log of the document unchanged. With other calls running in
\* between this is a property of the steps of each call, and when no call
\* is running every operation is as often in operation_queue as in the log
\* of its document.
C13_EnqueuesIffApplied ==
    /\ [][\A t \in Threads :
            (ProcessStep(t) /\ frame[t].doc \in DOMAIN sessions) =>
                CallEnqueuesIffApplied(t)]_vars
    /\ [](Quiescent =>
            \A d \in DOMAIN sessions, op \in AllProcessOps :
                Count(sessions[d].document_state.operations, op)
                    = Count(operation_queue, <<d, op>>))

\* one operation was applied and queued while another call was refused by
\* apply_operation; the refused call has returned and the other has not
C13_Witness ==
    /\ call.fn = "process_operation"
    /\ call.ret = ApplyFailed
    /\ Len(operation_queue) = 1
    /\ sessions[call.doc].document_state.version = 1
    /\ operation_queue[1][1] = call.doc
    /\ \E u \in Threads : u # call.thread /\ pc[u] = "process_return"

\* C14: process_operation for a document id without a session returns the
\* 'Session not found' failure, creates no session and leaves the sessions,
\* every DocumentState in them and operation_queue unchanged: the call is
\* over after its lookup, and neither its entry nor its lookup changes
\* anything.
C14_NoSessionNoEffect ==
    [][\A t \in Threads :
          /\ (pc[t] = "idle" /\ pc'[t] = "process_lookup") =>
                 sessions' = sessions /\ operation_queue' = operation_queue
          /\ (ProcessStep(t) /\ pc[t] = "process_lookup"
                             /\ frame[t].doc \notin DOMAIN sessions) =>
                 /\ pc'[t] = "idle"
                 /\ call'.fn = "process_operation" /\ call'.thread = t
                 /\ call'.doc = frame[t].doc
                 /\ call'.ret.success = FALSE
                 /\ call'.ret.error = "Session not found"
                 /\ sessions' = sessions
                 /\ operation_queue' = operation_queue]_vars

\* the session of another document exists and has processed an operation,
\* and the last call found no session for its document
C14_Witness ==
    /\ call.fn = "process_operation"
    /\ call.ret = SessionNotFound
    /\ call.doc \notin DOMAIN sessions
    /\ \E e \in DOMAIN sessions : sessions[e].document_state.version > 0
    /\ Len(operation_queue) > 0

====
